---- MODULE Spec2Model ----
(***************************************************************************)
(* Relay orchestration of coffea-relay: RelayService.submitTransaction,    *)
(* RelayService.cancelTask and the monitoring loop started by              *)
(* RelayService.monitorTransaction, over the Task Store reached through    *)
(* TaskTrackerService (createTask, updateTaskStatus, getTaskStatus).       *)
(*                                                                         *)
(* Every `await` of the source is a point where another handler may run,   *)
(* so updateTaskStatus is two steps (findOne, then save of the entity it   *)
(* read and modified) and each caller keeps its own copy of the entity.    *)
(* A Task Store operation and a provider call may reject; the model takes  *)
(* the branch the source takes for it.                                     *)
(*                                                                         *)
(* An optional value (undefined / null in the source) is a set with at     *)
(* most one element: None or Some(v).  A message is a sequence of strings, *)
(* so that the string templates of the source are concatenations.          *)
(***************************************************************************)
EXTENDS Integers, Sequences, FiniteSets, TLC

\* ------------------------------------------------------------------ bounds

\* The configured MAX_RETRY_ATTEMPTS (the default in the source is 60).
maxRetries == 3

\* Number of concurrent cancelTask calls.
NumCancels == 1

\* Number of concurrent executeWithFallback calls.
NumCalls == 2

\* ------------------------------------------------------------- input sets

\* The ids uuidv4 hands to the submitTransaction calls, one per call, in the
\* order in which the calls start.
TaskIds == <<"t1", "t2">>
Tasks == {TaskIds[i] : i \in DOMAIN TaskIds}

Cancels == 1..NumCancels

\* chainId of a request: a supported chain and one that is not.
ChainIds == {31337, 5}

\* Hashes the Transaction Submitter can return.
Hashes == {"0xh1"}

\* Messages of the errors a collaborator can raise.
ProviderError == <<"All providers failed">>
StoreError == <<"store unavailable">>

None == {}
Some(v) == {v}
The(o) == CHOOSE v \in o : TRUE

\* Receipts as the chain endpoint returns them (ethers' TransactionReceipt):
\* gasPrice and status may be null (a null status is read as 0, reverted).
ProviderReceipts ==
    { [blockNumber |-> 100, gasUsed |-> 21000, gasPrice |-> Some(20), status |-> Some(1)],
      [blockNumber |-> 0,   gasUsed |-> 0,     gasPrice |-> None,     status |-> Some(1)],
      [blockNumber |-> 100, gasUsed |-> 21000, gasPrice |-> Some(20), status |-> None] }

\* ---------------------------------------------------------- RelayTaskState

PENDING == "pending"
SUBMITTED == "submitted"
SUCCESS == "success"
FAILED == "failed"
CANCELLED == "cancelled"

RelayTaskState == {PENDING, SUBMITTED, SUCCESS, FAILED, CANCELLED}

\* ------------------------------------------------ RelayService (constants)

supportedChains == {1, 11155111, 31337}

isSupported_any(chainId) == TRUE

isSupported(chainId) == chainId \in supportedChains

\* cancelTask's check of the status it read: only a pending task is cancelled.
cancellable_open(status) == status \in {PENDING, SUBMITTED}

cancellable(status) == status = PENDING

\* monitor's check of the attempt counter after retries++.
exhausted_late(n) == n > maxRetries

exhausted(n) == n >= maxRetries

\* JavaScript truthiness of an optional number, string and message.
TruthyNum(o) == o # None /\ o # Some(0)
TruthyStr(o) == o # None /\ o # Some("")
TruthyMsg(o) == o # None /\ o # Some(<< >>)

\* ------------------------------------------------------------ WalletService

\* WalletService.getTransactionReceipt: the receipt handed to the monitor
\* (ToString is BigInt.prototype.toString).
getTransactionReceipt(raw) ==
    [ blockNumber |-> raw.blockNumber,
      gasUsed |-> raw.gasUsed,
      effectiveGasPrice |->
          IF raw.gasPrice # None /\ ToString(The(raw.gasPrice)) # ""
          THEN ToString(The(raw.gasPrice)) ELSE "0",
      status |-> IF TruthyNum(raw.status) THEN The(raw.status) ELSE 0 ]

\* ------------------------------------------------------- TaskTrackerService

NoMetadata ==
    [ transactionHash |-> None, blockNumber |-> None, gasUsed |-> None,
      effectiveGasPrice |-> None, error |-> None ]

\* The entity createTask saves.
NewTask(chainId) ==
    [ chainId |-> chainId, status |-> PENDING, transactionHash |-> None,
      blockNumber |-> None, gasUsed |-> None, effectiveGasPrice |-> None,
      error |-> None ]

\* updateTaskStatus, between findOne and save: the changes made to the entity.
applyUpdate(task, status, metadata) ==
    [ task EXCEPT
        !.status = status,
        !.transactionHash =
            IF TruthyStr(metadata.transactionHash) THEN metadata.transactionHash ELSE @,
        !.blockNumber = IF TruthyNum(metadata.blockNumber) THEN metadata.blockNumber ELSE @,
        !.gasUsed = IF TruthyNum(metadata.gasUsed) THEN metadata.gasUsed ELSE @,
        !.effectiveGasPrice =
            IF TruthyStr(metadata.effectiveGasPrice) THEN metadata.effectiveGasPrice ELSE @,
        !.error = IF TruthyMsg(metadata.error) THEN metadata.error ELSE @ ]

\* RelayTask.isFinalState
isFinalState(status) == status \in {SUCCESS, FAILED, CANCELLED}

NotFound(taskId) == <<"Task ", taskId, " not found">>

\* -------------------------------------------------------------------- state

VARIABLES
    store,       \* Task Store: taskId -> entity, for the ids that have a record
    spc,         \* submitTransaction call of each id: where it is suspended
    sreq,        \* its request
    shash,       \* the hash walletService.submitTransaction returned
    serr,        \* the message of the error its catch block caught
    sent,        \* the entity its updateTaskStatus read and modified
    sres,        \* its outcome: a response, or the error it raised
    mpc,         \* monitoring loop of each id: where it is
    retries,     \* its attempt counter
    mcall,       \* the updateTaskStatus call it is making: status and metadata
    ment,        \* the entity that call read and modified
    polls,       \* receipt polls made so far for the id
    cpc,         \* cancelTask call: where it is suspended
    ctask,       \* the taskId it was called with
    cread,       \* the status getTaskStatus returned to it
    cent,        \* the entity its updateTaskStatus read and modified
    cres,        \* its return value
    broadcasts,  \* transactions the Transaction Submitter broadcast, per id
    monitored,   \* timer view of monitorTransaction: whether it was called for the id
    timers,      \* the setTimeout(monitor) callbacks pending for the id
    running,     \* the monitor invocations in flight for the id, per await they are at
    rpcUrls,         \* the three RPC URLs configured for each chain, by what they contain
    chainProviders,  \* BaseProviderService.chainProviders: chainId -> ChainProviders
    exec,            \* the executeWithFallback calls: where each is, and its locals
    gpc,             \* gas view of a submitTransaction call: where it is
    greq,            \* the gas fields of its request
    gasParams,       \* its local gasParams
    created,         \* whether it called createTask
    estimateCalls,   \* the gasEstimator.estimateGas calls it made
    walletParams,    \* the gas fields it passed to walletService.submitTransaction
    wallet,          \* WalletService.submitTransaction call: its position, params, transaction, outcome
    now, \* seconds since the service started
    cache, \* the shared cache: the gas_prices entry of each chain
    gp, \* the getGasPrices calls: where each is, and its locals
    eg, \* the estimateGas call: where it is, and its locals
    health, \* the RelayService.checkHealth call: where it is, and what the components returned
    vcall, \* the validateGasParams call: its arguments and what it returned
    query  \* the RelayService.getTaskStatus calls: where each is, and its outcome

svars == <<spc, sreq, shash, serr, sent, sres>>
mvars == <<mpc, retries, mcall, ment, polls>>
cvars == <<cpc, ctask, cread, cent, cres>>
gvars == <<broadcasts>>
lvars == <<monitored, timers, running>>
pvars == <<rpcUrls, chainProviders, exec>>
evars == <<gpc, greq, gasParams, created, estimateCalls, walletParams>>

\* The variables of the component specifications (LoopSpec, PoolSpec,
\* GasSpec), which the steps of Spec leave alone.
ovars == <<lvars, pvars, evars, wallet, now, cache, gp, eg, health, vcall, query>>
vars == <<store, svars, mvars, cvars, gvars, ovars>>

\* A request: its chainId.  Its gas fields are read only where
\* submitTransaction decides whether to call the Gas Estimator, and are drawn
\* there.
Requests == [chainId : ChainIds]

\* ------------------------------------------------------ BaseProviderService

\* The chains the pool serves here: mainnet and the Hardhat fork.
PoolChains == {1, 31337}

Calls == 1..NumCalls

\* What initializeProviderConfigs looks for in a URL.
UrlKinds == {"alchemy", "infura", "publicnode", "other"}

\* getRpcUrlsByChainId: ALCHEMY_RPC_URL, INFURA_RPC_URL and ETHEREUM_RPC_URL
\* of a chain.  For mainnet each comes from its own environment variable:
\* the defaults, a public node configured first, and the legacy setting of
\* the environment example, where ETHEREUM_MAINNET_RPC_URL is a second
\* Alchemy URL.  For the Hardhat fork all three are HARDHAT_MAINNET_RPC_URL.
MainnetRpcUrls ==
    { <<"alchemy", "infura", "publicnode">>,
      <<"publicnode", "other", "alchemy">>,
      <<"alchemy", "infura", "alchemy">> }

HardhatRpcUrls == { <<"other", "other", "other">> }

DefaultRpcUrls ==
    [chainId \in PoolChains |->
        IF chainId = 1 THEN <<"alchemy", "infura", "publicnode">>
                       ELSE <<"other", "other", "other">>]

\* Names as in the code, with the priority taken from the position alone.
ProviderConfig_positional(chainId, kind, index) ==
    [ name |-> IF kind = "other"
               THEN <<"provider_", ToString(index), "_", ToString(chainId)>>
               ELSE <<kind, "_", ToString(chainId)>>,
      priority |-> index + 1 ]

\* The name and priority given to the URL at index (from 0) of rpcUrls.
ProviderConfig(chainId, kind, index) ==
    IF kind = "alchemy"
    THEN [name |-> <<"alchemy_", ToString(chainId)>>, priority |-> 1]
    ELSE IF kind = "infura"
    THEN [name |-> <<"infura_", ToString(chainId)>>, priority |-> 2]
    ELSE IF kind = "publicnode"
    THEN [name |-> <<"publicnode_", ToString(chainId)>>, priority |-> 3]
    ELSE [name |-> <<"provider_", ToString(index), "_", ToString(chainId)>>,
          priority |-> index + 4]

initializeProviderConfigs(chainId, urls) ==
    [i \in 1..Len(urls) |-> ProviderConfig(chainId, urls[i], i - 1)]

\* Map.set on a Map kept as the sequence of its entries, in insertion order:
\* the value of an existing key is replaced where the key stands.
MapSet(entries, name, provider) ==
    IF \E i \in DOMAIN entries : entries[i].name = name
    THEN [i \in DOMAIN entries |->
            IF entries[i].name = name THEN [name |-> name, provider |-> provider]
            ELSE entries[i]]
    ELSE Append(entries, [name |-> name, provider |-> provider])

\* The providers Map after the first n configs: the provider created for
\* config i is the object i.
RECURSIVE CreatedProviders(_, _)
CreatedProviders(configs, n) ==
    IF n = 0 THEN << >>
    ELSE MapSet(CreatedProviders(configs, n - 1), configs[n].name, n)

\* initializeProvidersForChain: the ChainProviders of a chain; the first
\* provider created is the current one.
initializeProvidersForChain(chainId, urls) ==
    LET configs == initializeProviderConfigs(chainId, urls)
    IN  [ providers |-> CreatedProviders(configs, Len(configs)),
          currentProvider |-> 1,
          configs |-> configs ]

Min(S) == CHOOSE x \in S : \A y \in S : x <= y

\* configs.find((c) => c.name === name)?.priority || 99
priorityOf(configs, name) ==
    LET found == {i \in DOMAIN configs : configs[i].name = name}
    IN  IF found = {} \/ configs[Min(found)].priority = 0 THEN 99
        ELSE configs[Min(found)].priority

\* The entries in insertion order, with no sort.
sortedProviders_unsorted(chainProvider) == chainProvider.providers

\* The entry of the current provider first, the others by priority.
sortedProviders_sticky(chainProvider) ==
    LET entries == chainProvider.providers
        n == Len(entries)
        key(i) == IF entries[i].provider = chainProvider.currentProvider THEN 0
                  ELSE priorityOf(chainProvider.configs, entries[i].name)
        before(i, j) == key(i) < key(j) \/ (key(i) = key(j) /\ i < j)
        rank(i) == Cardinality({j \in 1..n : before(j, i)}) + 1
    IN  [r \in 1..n |-> entries[CHOOSE i \in 1..n : rank(i) = r]]

\* sortedProviders of executeWithFallback: the entries of the Map sorted by
\* the priority of their configs (Array.prototype.sort is stable).
sortedProviders(chainProvider) ==
    LET entries == chainProvider.providers
        n == Len(entries)
        key(i) == priorityOf(chainProvider.configs, entries[i].name)
        before(i, j) == key(i) < key(j) \/ (key(i) = key(j) /\ i < j)
        rank(i) == Cardinality({j \in 1..n : before(j, i)}) + 1
    IN  [r \in 1..n |-> entries[CHOOSE i \in 1..n : rank(i) = r]]

\* What an attempt can reject with: the error of the endpoint, or the timer
\* of Promise.race after PROVIDER_TIMEOUT.
RpcError(provider) == <<"rpc error of endpoint ", ToString(provider)>>
ProviderTimeout == <<"Provider timeout">>

AllProvidersFailed(chainId, message) ==
    <<"All providers failed for operation on chain ", ToString(chainId),
      ". Last error: ">> \o message

\* An executeWithFallback call that has not started.  Besides its locals a
\* call keeps the log of its attempts and, read by no step, the current
\* provider of its chain at the time it started, the providers on which the
\* operation it started has not settled (running) and those on which it
\* resolved (resolved).
NoCall ==
    [ pc |-> "idle", chainId |-> 0, sortedProviders |-> << >>, index |-> 0,
      lastError |-> None, log |-> << >>, outcome |-> None, currentAtStart |-> 0,
      running |-> {}, resolved |-> {} ]

\* The pool after the constructor (initializeAllProviders) under the
\* configured URLs.
InitPool(urls) ==
    /\ rpcUrls = urls
    /\ chainProviders =
          [chainId \in PoolChains |-> initializeProvidersForChain(chainId, urls[chainId])]
    /\ exec = [k \in Calls |-> NoCall]

\* ---------------------------------------------------------- gas parameters

\* Gas prices are counted in gwei and written, as in the request and in the
\* estimation, as decimal strings.

\* validateGasParams: the gas limit above which a request is refused.
GasLimitCeiling == 10000000

\* MAX_GAS_PRICE_GWEI, by default.
MaxGasPriceGwei == 100

\* The largest price that occurs in a request or an estimation here.
MaxPrice == 200

\* BigInt(string) for the decimal strings up to MaxPrice.
BigInt(string) == CHOOSE n \in 0..MaxPrice : ToString(n) = string

\* The gas fields a request can carry.
GasRequests ==
    [ gasLimit : {None, Some(21000), Some(20000000)},
      gasPrice : {None, Some("20"), Some("200")},
      maxFeePerGas : {None, Some("30")},
      maxPriorityFeePerGas : {None, Some("5")} ]

\* What estimateGas can return: the legacy estimation, the fee-market one,
\* and the fallback of its catch block.
GasEstimations ==
    { [gasLimit |-> Some(60000), gasPrice |-> Some("22"),
       maxFeePerGas |-> None, maxPriorityFeePerGas |-> None],
      [gasLimit |-> Some(60000), gasPrice |-> Some("22"),
       maxFeePerGas |-> Some("40"), maxPriorityFeePerGas |-> Some("2")],
      [gasLimit |-> Some(500000), gasPrice |-> Some("20"),
       maxFeePerGas |-> None, maxPriorityFeePerGas |-> None] }

\* Whether BigInt(string) returns rather than throws a SyntaxError.
Parses(string) == \E n \in 0..MaxPrice : ToString(n) = string

\* A validation that refuses the ceiling itself.
validateGasParams_inclusive(gasLimit, gasPrice, maxFeePerGas) ==
    IF TruthyNum(gasLimit) /\ The(gasLimit) >= GasLimitCeiling THEN FALSE
    ELSE IF TruthyStr(gasPrice) /\ ~Parses(The(gasPrice)) THEN FALSE
    ELSE IF TruthyStr(gasPrice) /\ BigInt(The(gasPrice)) > MaxGasPriceGwei THEN FALSE
    ELSE IF TruthyStr(maxFeePerGas) /\ ~Parses(The(maxFeePerGas)) THEN FALSE
    ELSE IF TruthyStr(maxFeePerGas) /\ BigInt(The(maxFeePerGas)) > MaxGasPriceGwei THEN FALSE
    ELSE TRUE

\* GasEstimatorService.validateGasParams; a BigInt that throws is caught and
\* false is returned.
validateGasParams(gasLimit, gasPrice, maxFeePerGas) ==
    IF TruthyNum(gasLimit) /\ The(gasLimit) > GasLimitCeiling THEN FALSE
    ELSE IF TruthyStr(gasPrice) /\ ~Parses(The(gasPrice)) THEN FALSE
    ELSE IF TruthyStr(gasPrice) /\ BigInt(The(gasPrice)) > MaxGasPriceGwei THEN FALSE
    ELSE IF TruthyStr(maxFeePerGas) /\ ~Parses(The(maxFeePerGas)) THEN FALSE
    ELSE IF TruthyStr(maxFeePerGas) /\ BigInt(The(maxFeePerGas)) > MaxGasPriceGwei THEN FALSE
    ELSE TRUE

\* The arguments validateGasParams is called with here.
ValidateArgs ==
    [ gasLimit : {None, Some(0), Some(21000), Some(GasLimitCeiling),
                  Some(GasLimitCeiling + 1)},
      gasPrice : {None, Some(""), Some("20"), Some(ToString(MaxGasPriceGwei)),
                  Some(ToString(MaxGasPriceGwei + 1)), Some("abc")},
      maxFeePerGas : {None, Some("30"), Some(ToString(MaxGasPriceGwei + 1)),
                      Some("1.5")} ]

\* No validateGasParams call.
NoValidateCall == [ pc |-> "idle", args |-> None, result |-> None ]

InitValidate == vcall = NoValidateCall

\* No submitTransaction call yet.
InitGas ==
    /\ gpc = "idle"
    /\ greq = None
    /\ gasParams = None
    /\ created = FALSE
    /\ estimateCalls = 0
    /\ walletParams = None

\* ------------------------------------------------------------ WalletService

\* The params WalletService.submitTransaction can be called with.
WalletParams ==
    [ chainId : PoolChains,
      gasLimit : {Some(21000)},
      gasPrice : {None, Some(""), Some("20")},
      maxFeePerGas : {None, Some("30")},
      maxPriorityFeePerGas : {None, Some("5")} ]

MissingGasParameters ==
    <<"Either gasPrice or maxFeePerGas/maxPriorityFeePerGas must be provided">>

\* The error the catch block of submitTransaction throws.
WalletSubmissionFailed(message) == <<"Transaction submission failed: ">> \o message

\* No submitTransaction call yet.
NoWalletCall ==
    [ pc |-> "idle", params |-> None, transaction |-> None, outcome |-> None ]

InitWallet == wallet = NoWalletCall

\* ------------------------------------------ GasEstimatorService.getGasPrices

\* GasEstimatorService.CACHE_TTL, in seconds.
CACHE_TTL == 60

\* The clock advances by Tick seconds at a time, up to MaxTime.
Tick == 30
MaxTime == 90

\* The getGasPrices calls followed.
GpCalls == {1, 2}

\* What provider.getFeeData() can return, prices in gwei; null is None.
FeeDatas ==
    [ gasPrice : {None, Some(20), Some(40)},
      maxFeePerGas : {None, Some(50)},
      maxPriorityFeePerGas : {None, Some(3)} ]

\* ethers.parseUnits("20", "gwei"), the price used when there is none.
FallbackGasPrice == 20

\* The three tiers computed from the base price with the default
\* GAS_PRICE_MULTIPLIER of 1.1: Math.floor of 0.8, 1.1 and 1.1 * 1.5 times
\* the base, as decimal strings.
GasPrices(feeData) ==
    LET baseGasPrice == IF TruthyNum(feeData.gasPrice) THEN The(feeData.gasPrice)
                        ELSE FallbackGasPrice
    IN  [ slow |-> ToString((baseGasPrice * 8) \div 10),
          standard |-> ToString((baseGasPrice * 11) \div 10),
          fast |-> ToString((baseGasPrice * 11 * 15) \div 100) ]

\* The prices the catch block of getGasPrices returns.
FallbackPrices ==
    [ slow |-> ToString(FallbackGasPrice), standard |-> ToString(FallbackGasPrice),
      fast |-> ToString(FallbackGasPrice) ]

\* A getGasPrices call that has not started.  Besides its locals a call
\* keeps, read by no step: when it started, the calls that had returned by
\* then, when it read the cache and whether that read failed, whether it
\* called executeWithFallback and whether an endpoint answered, and when the
\* cache entry that holds the prices it returned was stored.
NoGpCall ==
    [ pc |-> "idle", chainId |-> 0, prices |-> None, startedAt |-> 0, after |-> {},
      readAt |-> 0, readFailed |-> FALSE, queried |-> FALSE, fetched |-> FALSE,
      storedAt |-> None ]

\* The clock at 0, the cache empty, no call.
InitPrices ==
    /\ now = 0
    /\ cache = [chainId \in PoolChains |-> None]
    /\ gp = [k \in GpCalls |-> NoGpCall]

\* ------------------------------------------- GasEstimatorService.estimateGas

\* DEFAULT_GAS_LIMIT, by default.
DEFAULT_GAS_LIMIT == 500000

\* ethers.parseUnits("2", "gwei"), the priority fee used when there is none.
DefaultPriorityFee == 2

\* What provider.estimateGas can return for the request.
GasEstimates == {21000, 41667}

\* Math.floor(Number(gasEstimate) * 1.2)
Buffered(gasEstimate) == (gasEstimate * 12) \div 10

\* value?.toString() || fallback, for a fee that is null or a number.
FeeOr(value, fallback) ==
    IF value # None /\ ToString(The(value)) # "" THEN ToString(The(value)) ELSE fallback

\* An estimateGas call that has not started.  Besides its locals a call
\* keeps, read by no step, what the simulation and the two fee data queries
\* returned; call is the number of the getGasPrices call it makes.
NoEgCall ==
    [ pc |-> "idle", call |-> 0, chainId |-> 0, gasLimit |-> 0, gasPrice |-> "",
      estimatedCost |-> "", simulated |-> None, checked |-> None, feeData |-> None,
      result |-> None ]

InitEstimate == eg = NoEgCall

\* ------------------------------------------------------------- checkHealth

\* getSupportedChains(): the keys of chainProviders, in the order in which
\* initializeAllProviders set them.
getSupportedChains == <<1, 31337>>

\* A RelayService.checkHealth call that has not started.  call is the number
\* of the getGasPrices call it makes, index the chain the check of the
\* Transaction Submitter is at.
NoHealthCall ==
    [ pc |-> "idle", call |-> 0, index |-> 0, walletHealthy |-> None,
      gasEstimatorHealthy |-> None, taskTrackerHealthy |-> None, result |-> None ]

InitHealth == health = NoHealthCall

\* ------------------------------------------------ RelayService.getTaskStatus

\* The getTaskStatus calls followed.
QueryCalls == {1, 2}

\* A getTaskStatus call that has not started.  Besides its outcome a call
\* keeps, read by no step, the Task Store as it was when it was read and
\* whether the read was rejected.
NoQuery ==
    [ pc |-> "idle", taskId |-> "", outcome |-> None, at |-> None, rejected |-> FALSE ]

InitQuery == query = [k \in QueryCalls |-> NoQuery]

\* The awaits of the monitor closure: the receipt poll, the updateTaskStatus
\* of the try block, the updateTaskStatus of the catch block.
MonitorAwaits == {"receipt", "update", "catch_update"}

\* No monitorTransaction call yet.
InitLoop ==
    /\ monitored = [t \in Tasks |-> FALSE]
    /\ timers = [t \in Tasks |-> 0]
    /\ running = [t \in Tasks |-> [a \in MonitorAwaits |-> 0]]

\* No submitTransaction or cancelTask call yet, and an empty Task Store.
InitRelay ==
    /\ store = [x \in {} |-> None]
    /\ spc = [t \in Tasks |-> "idle"]
    /\ sreq = [t \in Tasks |-> None]
    /\ shash = [t \in Tasks |-> None]
    /\ serr = [t \in Tasks |-> None]
    /\ sent = [t \in Tasks |-> None]
    /\ sres = [t \in Tasks |-> None]
    /\ mpc = [t \in Tasks |-> "off"]
    /\ retries = [t \in Tasks |-> 0]
    /\ mcall = [t \in Tasks |-> None]
    /\ ment = [t \in Tasks |-> None]
    /\ polls = [t \in Tasks |-> 0]
    /\ cpc = [k \in Cancels |-> "idle"]
    /\ ctask = [k \in Cancels |-> None]
    /\ cread = [k \in Cancels |-> None]
    /\ cent = [k \in Cancels |-> None]
    /\ cres = [k \in Cancels |-> None]
    /\ broadcasts = [t \in Tasks |-> 0]

Init ==
    /\ InitRelay
    /\ InitLoop
    /\ InitPool(DefaultRpcUrls)
    /\ InitGas
    /\ InitWallet
    /\ InitPrices
    /\ InitEstimate
    /\ InitHealth
    /\ InitValidate
    /\ InitQuery

\* taskRepository.save of an entity under its taskId.
save(taskId, task) ==
    [x \in DOMAIN store \cup {taskId} |-> IF x = taskId THEN task ELSE store[x]]

\* TaskTrackerService.getTaskStatus on a Task Store that answers: the
\* snapshot of the record, or the not-found error.
getTaskStatus(taskId) ==
    IF taskId \in DOMAIN store
    THEN [ raised |-> FALSE, message |-> << >>,
           value |-> Some([ taskId |-> taskId,
                            chainId |-> store[taskId].chainId,
                            status |-> store[taskId].status,
                            transactionHash |-> store[taskId].transactionHash,
                            blockNumber |-> store[taskId].blockNumber,
                            gasUsed |-> store[taskId].gasUsed,
                            effectiveGasPrice |-> store[taskId].effectiveGasPrice,
                            error |-> store[taskId].error ]) ]
    ELSE [raised |-> TRUE, message |-> NotFound(taskId), value |-> None]

\* ------------------------------------------ RelayService.submitTransaction

\* The metadata of the SUBMITTED update: { transactionHash }.
submittedMetadata_empty(hash) == NoMetadata

submittedMetadata(hash) == [NoMetadata EXCEPT !.transactionHash = hash]

Response(success, message) == [raised |-> FALSE, success |-> success, message |-> message]
Raised(message) == [raised |-> TRUE, success |-> FALSE, message |-> message]

\* uuidv4, the chain check, and the call of createTask (or the throw).
\* The ids are numbered in the order in which their calls start.
SubmitStart(t, request) ==
    /\ spc[t] = "idle"
    /\ \A i \in DOMAIN TaskIds : \A j \in 1..(i - 1) :
          TaskIds[i] = t => spc[TaskIds[j]] # "idle"
    /\ sreq' = [sreq EXCEPT ![t] = Some(request)]
    /\ IF isSupported(request.chainId)
       THEN /\ spc' = [spc EXCEPT ![t] = "create"]
            /\ serr' = serr
       ELSE /\ spc' = [spc EXCEPT ![t] = "catch_find"]
            /\ serr' = [serr EXCEPT ![t] =
                   Some(<<"Chain ID ", ToString(request.chainId), " is not supported">>)]
    /\ UNCHANGED <<store, shash, sent, sres, mvars, cvars, gvars, ovars>>

\* createTask saved the PENDING record; gas parameters are resolved next:
\* with gasPrice or maxFeePerGas in the request (hasGas) the Transaction
\* Submitter is called at once, otherwise the Gas Estimator first.
SubmitCreate(t, hasGas) ==
    /\ spc[t] = "create"
    /\ store' = save(t, NewTask(The(sreq[t]).chainId))
    /\ spc' = [spc EXCEPT ![t] = IF hasGas THEN "broadcast" ELSE "estimate"]
    /\ UNCHANGED <<sreq, shash, serr, sent, sres, mvars, cvars, gvars, ovars>>

\* createTask: the save rejected.
SubmitCreateFails(t) ==
    /\ spc[t] = "create"
    /\ spc' = [spc EXCEPT ![t] = "catch_find"]
    /\ serr' = [serr EXCEPT ![t] = Some(<<"Task creation failed: ">> \o StoreError)]
    /\ UNCHANGED <<store, sreq, shash, sent, sres, mvars, cvars, gvars, ovars>>

\* gasEstimator.estimateGas returned (it catches every error itself).
SubmitEstimate(t) ==
    /\ spc[t] = "estimate"
    /\ spc' = [spc EXCEPT ![t] = "broadcast"]
    /\ UNCHANGED <<store, sreq, shash, serr, sent, sres, mvars, cvars, gvars, ovars>>

\* walletService.submitTransaction returned a hash; updateTaskStatus is called.
SubmitBroadcast(t, hash) ==
    /\ spc[t] = "broadcast"
    /\ broadcasts' = [broadcasts EXCEPT ![t] = @ + 1]
    /\ shash' = [shash EXCEPT ![t] = Some(hash)]
    /\ spc' = [spc EXCEPT ![t] = "upd_find"]
    /\ UNCHANGED <<store, sreq, serr, sent, sres, mvars, cvars, ovars>>

\* walletService.submitTransaction raised.
SubmitBroadcastFails(t) ==
    /\ spc[t] = "broadcast"
    /\ spc' = [spc EXCEPT ![t] = "catch_find"]
    /\ serr' = [serr EXCEPT ![t] = Some(<<"Transaction submission failed: ">> \o ProviderError)]
    /\ UNCHANGED <<store, sreq, shash, sent, sres, mvars, cvars, gvars, ovars>>

\* updateTaskStatus(taskId, SUBMITTED, {transactionHash}): findOne returned.
SubmitUpdFind(t) ==
    /\ spc[t] = "upd_find"
    /\ IF t \in DOMAIN store
       THEN /\ sent' = [sent EXCEPT ![t] = Some(applyUpdate(store[t], SUBMITTED,
                           submittedMetadata(shash[t])))]
            /\ spc' = [spc EXCEPT ![t] = "upd_save"]
            /\ serr' = serr
       ELSE /\ sent' = sent
            /\ spc' = [spc EXCEPT ![t] = "catch_find"]
            /\ serr' = [serr EXCEPT ![t] = Some(NotFound(t))]
    /\ UNCHANGED <<store, sreq, shash, sres, mvars, cvars, gvars, ovars>>

\* The SUBMITTED record is saved; monitorTransaction sets the first timer and
\* the response is returned.
SubmitUpdSave(t) ==
    /\ spc[t] = "upd_save"
    /\ store' = save(t, The(sent[t]))
    /\ sent' = [sent EXCEPT ![t] = None]
    /\ mpc' = [mpc EXCEPT ![t] = "timer"]
    /\ retries' = [retries EXCEPT ![t] = 0]
    /\ sres' = [sres EXCEPT ![t] = Some(Response(TRUE, <<"Transaction submitted successfully">>))]
    /\ spc' = [spc EXCEPT ![t] = "done"]
    /\ UNCHANGED <<sreq, shash, serr, mcall, ment, polls, cvars, gvars, ovars>>

\* updateTaskStatus(SUBMITTED): findOne or save rejected.
SubmitUpdFails(t) ==
    /\ spc[t] \in {"upd_find", "upd_save"}
    /\ sent' = [sent EXCEPT ![t] = None]
    /\ spc' = [spc EXCEPT ![t] = "catch_find"]
    /\ serr' = [serr EXCEPT ![t] = Some(StoreError)]
    /\ UNCHANGED <<store, sreq, shash, sres, mvars, cvars, gvars, ovars>>

\* The catch block with an updateTaskStatus that lets a missing record pass.
SubmitCatchFind_lenient(t) ==
    /\ spc[t] = "catch_find"
    /\ IF t \in DOMAIN store
       THEN /\ sent' = [sent EXCEPT ![t] = Some(applyUpdate(store[t], FAILED,
                           [NoMetadata EXCEPT !.error = serr[t]]))]
            /\ spc' = [spc EXCEPT ![t] = "catch_save"]
            /\ sres' = sres
       ELSE /\ sent' = sent
            /\ spc' = [spc EXCEPT ![t] = "done"]
            /\ sres' = [sres EXCEPT ![t] = Some(Response(FALSE, The(serr[t])))]
    /\ UNCHANGED <<store, sreq, shash, serr, mvars, cvars, gvars, ovars>>

\* catch: updateTaskStatus(taskId, FAILED, {error: error.message}): findOne returned.
SubmitCatchFind(t) ==
    /\ spc[t] = "catch_find"
    /\ IF t \in DOMAIN store
       THEN /\ sent' = [sent EXCEPT ![t] = Some(applyUpdate(store[t], FAILED,
                           [NoMetadata EXCEPT !.error = serr[t]]))]
            /\ spc' = [spc EXCEPT ![t] = "catch_save"]
            /\ sres' = sres
       ELSE /\ sent' = sent
            /\ spc' = [spc EXCEPT ![t] = "done"]
            /\ sres' = [sres EXCEPT ![t] = Some(Raised(NotFound(t)))]
    /\ UNCHANGED <<store, sreq, shash, serr, mvars, cvars, gvars, ovars>>

\* catch: the FAILED record is saved and the failure response returned.
SubmitCatchSave(t) ==
    /\ spc[t] = "catch_save"
    /\ store' = save(t, The(sent[t]))
    /\ sent' = [sent EXCEPT ![t] = None]
    /\ sres' = [sres EXCEPT ![t] = Some(Response(FALSE, The(serr[t])))]
    /\ spc' = [spc EXCEPT ![t] = "done"]
    /\ UNCHANGED <<sreq, shash, serr, mvars, cvars, gvars, ovars>>

\* catch: findOne or save rejected; nothing catches it.
SubmitCatchFails(t) ==
    /\ spc[t] \in {"catch_find", "catch_save"}
    /\ sent' = [sent EXCEPT ![t] = None]
    /\ sres' = [sres EXCEPT ![t] = Some(Raised(StoreError))]
    /\ spc' = [spc EXCEPT ![t] = "done"]
    /\ UNCHANGED <<store, sreq, shash, serr, mvars, cvars, gvars, ovars>>

submitTransaction(t) ==
    \/ \E request \in Requests : SubmitStart(t, request)
    \/ \E hasGas \in BOOLEAN : SubmitCreate(t, hasGas)
    \/ SubmitCreateFails(t)
    \/ SubmitEstimate(t)
    \/ \E hash \in Hashes : SubmitBroadcast(t, hash)
    \/ SubmitBroadcastFails(t)
    \/ SubmitUpdFind(t)
    \/ SubmitUpdSave(t)
    \/ SubmitUpdFails(t)
    \/ SubmitCatchFind(t)
    \/ SubmitCatchSave(t)
    \/ SubmitCatchFails(t)

\* ----------------------------- RelayService.monitorTransaction (monitor)

UpdateCall(status, metadata) == [status |-> status, metadata |-> metadata]

\* The catch block without its retries++.
MonitorCatch_uncounted(t, message) ==
    /\ retries' = retries
    /\ ment' = [ment EXCEPT ![t] = None]
    /\ IF exhausted(retries[t])
       THEN /\ mcall' = [mcall EXCEPT ![t] = Some(UpdateCall(FAILED,
                  [NoMetadata EXCEPT !.error = Some(<<"Monitoring failed: ">> \o message)]))]
            /\ mpc' = [mpc EXCEPT ![t] = "catch_find"]
       ELSE /\ mcall' = [mcall EXCEPT ![t] = None]
            /\ mpc' = [mpc EXCEPT ![t] = "timer"]

\* The catch block of monitor: count the attempt, then give up or reschedule.
MonitorCatch(t, message) ==
    /\ retries' = [retries EXCEPT ![t] = @ + 1]
    /\ ment' = [ment EXCEPT ![t] = None]
    /\ IF exhausted(retries[t] + 1)
       THEN /\ mcall' = [mcall EXCEPT ![t] = Some(UpdateCall(FAILED,
                  [NoMetadata EXCEPT !.error = Some(<<"Monitoring failed: ">> \o message)]))]
            /\ mpc' = [mpc EXCEPT ![t] = "catch_find"]
       ELSE /\ mcall' = [mcall EXCEPT ![t] = None]
            /\ mpc' = [mpc EXCEPT ![t] = "timer"]

\* A timer set by setTimeout(monitor, pollingInterval) fires: the receipt is asked for.
MonitorFire(t) ==
    /\ mpc[t] = "timer"
    /\ mpc' = [mpc EXCEPT ![t] = "polling"]
    /\ polls' = [polls EXCEPT ![t] = @ + 1]
    /\ UNCHANGED <<store, svars, retries, mcall, ment, cvars, gvars, ovars>>

\* The receipt branch with the error of a reverted transaction left out.
MonitorReceipt_unmarked(t, raw) ==
    LET receipt == getTransactionReceipt(raw)
        status == IF receipt.status = 1 THEN SUCCESS ELSE FAILED
    IN  /\ mpc[t] = "polling"
        /\ mcall' = [mcall EXCEPT ![t] = Some(UpdateCall(status,
              [ transactionHash |-> None,
                blockNumber |-> Some(receipt.blockNumber),
                gasUsed |-> Some(receipt.gasUsed),
                effectiveGasPrice |-> Some(receipt.effectiveGasPrice),
                error |-> None ]))]
        /\ mpc' = [mpc EXCEPT ![t] = "try_find"]
        /\ UNCHANGED <<store, svars, retries, ment, polls, cvars, gvars, ovars>>

\* The poll returned a receipt: updateTaskStatus is called with its values.
MonitorReceipt(t, raw) ==
    LET receipt == getTransactionReceipt(raw)
        status == IF receipt.status = 1 THEN SUCCESS ELSE FAILED
    IN  /\ mpc[t] = "polling"
        /\ mcall' = [mcall EXCEPT ![t] = Some(UpdateCall(status,
              [ transactionHash |-> None,
                blockNumber |-> Some(receipt.blockNumber),
                gasUsed |-> Some(receipt.gasUsed),
                effectiveGasPrice |-> Some(receipt.effectiveGasPrice),
                error |-> IF receipt.status = 0
                          THEN Some(<<"Transaction reverted">>) ELSE None ]))]
        /\ mpc' = [mpc EXCEPT ![t] = "try_find"]
        /\ UNCHANGED <<store, svars, retries, ment, polls, cvars, gvars, ovars>>

\* The absent receipt where the loop, its attempts used up, ends without
\* recording the timeout.
MonitorNoReceipt_silent(t) ==
    /\ mpc[t] = "polling"
    /\ retries' = [retries EXCEPT ![t] = @ + 1]
    /\ mpc' = [mpc EXCEPT ![t] = IF exhausted(retries[t] + 1) THEN "done" ELSE "timer"]
    /\ UNCHANGED <<store, svars, mcall, ment, polls, cvars, gvars, ovars>>

\* The poll returned null: count the attempt, then time out or reschedule.
MonitorNoReceipt(t) ==
    /\ mpc[t] = "polling"
    /\ retries' = [retries EXCEPT ![t] = @ + 1]
    /\ IF exhausted(retries[t] + 1)
       THEN /\ mcall' = [mcall EXCEPT ![t] = Some(UpdateCall(FAILED,
                  [NoMetadata EXCEPT !.error =
                      Some(<<"Transaction timeout - not confirmed within time limit">>)]))]
            /\ mpc' = [mpc EXCEPT ![t] = "try_find"]
       ELSE /\ mcall' = mcall
            /\ mpc' = [mpc EXCEPT ![t] = "timer"]
    /\ UNCHANGED <<store, svars, ment, polls, cvars, gvars, ovars>>

\* The poll raised.
MonitorPollRaises(t) ==
    /\ mpc[t] = "polling"
    /\ MonitorCatch(t, ProviderError)
    /\ UNCHANGED <<store, svars, polls, cvars, gvars, ovars>>

\* updateTaskStatus called in the try block: findOne returned.
MonitorTryFind(t) ==
    /\ mpc[t] = "try_find"
    /\ IF t \in DOMAIN store
       THEN /\ ment' = [ment EXCEPT ![t] = Some(applyUpdate(store[t],
                           The(mcall[t]).status, The(mcall[t]).metadata))]
            /\ mpc' = [mpc EXCEPT ![t] = "try_save"]
            /\ UNCHANGED <<retries, mcall>>
       ELSE MonitorCatch(t, NotFound(t))
    /\ UNCHANGED <<store, svars, polls, cvars, gvars, ovars>>

\* updateTaskStatus called in the try block: saved; the loop ends.
MonitorTrySave(t) ==
    /\ mpc[t] = "try_save"
    /\ store' = save(t, The(ment[t]))
    /\ ment' = [ment EXCEPT ![t] = None]
    /\ mcall' = [mcall EXCEPT ![t] = None]
    /\ mpc' = [mpc EXCEPT ![t] = "done"]
    /\ UNCHANGED <<svars, retries, polls, cvars, gvars, ovars>>

\* updateTaskStatus called in the try block: findOne or save rejected.
MonitorTryFails(t) ==
    /\ mpc[t] \in {"try_find", "try_save"}
    /\ MonitorCatch(t, StoreError)
    /\ UNCHANGED <<store, svars, polls, cvars, gvars, ovars>>

\* updateTaskStatus called in the catch block: findOne returned.
MonitorCatchFind(t) ==
    /\ mpc[t] = "catch_find"
    /\ IF t \in DOMAIN store
       THEN /\ ment' = [ment EXCEPT ![t] = Some(applyUpdate(store[t],
                           The(mcall[t]).status, The(mcall[t]).metadata))]
            /\ mpc' = [mpc EXCEPT ![t] = "catch_save"]
       ELSE /\ ment' = ment
            /\ mpc' = [mpc EXCEPT ![t] = "unhandled"]
    /\ UNCHANGED <<store, svars, retries, mcall, polls, cvars, gvars, ovars>>

\* updateTaskStatus called in the catch block: saved; the loop ends.
MonitorCatchSave(t) ==
    /\ mpc[t] = "catch_save"
    /\ store' = save(t, The(ment[t]))
    /\ ment' = [ment EXCEPT ![t] = None]
    /\ mcall' = [mcall EXCEPT ![t] = None]
    /\ mpc' = [mpc EXCEPT ![t] = "done"]
    /\ UNCHANGED <<svars, retries, polls, cvars, gvars, ovars>>

\* updateTaskStatus called in the catch block rejected: the rejection of the
\* timer callback's promise is handled by nothing.
MonitorCatchFails(t) ==
    /\ mpc[t] \in {"catch_find", "catch_save"}
    /\ ment' = [ment EXCEPT ![t] = None]
    /\ mcall' = [mcall EXCEPT ![t] = None]
    /\ mpc' = [mpc EXCEPT ![t] = "unhandled"]
    /\ UNCHANGED <<store, svars, retries, polls, cvars, gvars, ovars>>

monitor(t) ==
    \/ MonitorFire(t)
    \/ \E raw \in ProviderReceipts : MonitorReceipt(t, raw)
    \/ MonitorNoReceipt(t)
    \/ MonitorPollRaises(t)
    \/ MonitorTryFind(t)
    \/ MonitorTrySave(t)
    \/ MonitorTryFails(t)
    \/ MonitorCatchFind(t)
    \/ MonitorCatchSave(t)
    \/ MonitorCatchFails(t)

\* ------------------------------------------------- RelayService.cancelTask

\* getTaskStatus returned (or raised for an id with no record), and the
\* status check; for a PENDING status updateTaskStatus is called.  The calls
\* are numbered in the order in which their reads complete.
CancelRead(k, t) ==
    /\ cpc[k] = "idle"
    /\ \A j \in 1..(k - 1) : cpc[j] # "idle"
    /\ ctask' = [ctask EXCEPT ![k] = Some(t)]
    /\ IF t \notin DOMAIN store
       THEN /\ cread' = cread
            /\ cres' = [cres EXCEPT ![k] = Some(FALSE)]
            /\ cpc' = [cpc EXCEPT ![k] = "done"]
       ELSE /\ cread' = [cread EXCEPT ![k] = Some(store[t].status)]
            /\ IF ~cancellable(store[t].status)
               THEN /\ cres' = [cres EXCEPT ![k] = Some(FALSE)]
                    /\ cpc' = [cpc EXCEPT ![k] = "done"]
               ELSE /\ cres' = cres
                    /\ cpc' = [cpc EXCEPT ![k] = "find"]
    /\ UNCHANGED <<store, svars, mvars, cent, gvars, ovars>>

\* getTaskStatus rejected: caught, false.
CancelReadFails(k, t) ==
    /\ cpc[k] = "idle"
    /\ \A j \in 1..(k - 1) : cpc[j] # "idle"
    /\ ctask' = [ctask EXCEPT ![k] = Some(t)]
    /\ cres' = [cres EXCEPT ![k] = Some(FALSE)]
    /\ cpc' = [cpc EXCEPT ![k] = "done"]
    /\ UNCHANGED <<store, svars, mvars, cread, cent, gvars, ovars>>

\* updateTaskStatus(taskId, CANCELLED): findOne returned.
CancelFind(k) ==
    /\ cpc[k] = "find"
    /\ IF The(ctask[k]) \in DOMAIN store
       THEN /\ cent' = [cent EXCEPT ![k] =
                   Some(applyUpdate(store[The(ctask[k])], CANCELLED, NoMetadata))]
            /\ cpc' = [cpc EXCEPT ![k] = "save"]
            /\ cres' = cres
       ELSE /\ cent' = cent
            /\ cpc' = [cpc EXCEPT ![k] = "done"]
            /\ cres' = [cres EXCEPT ![k] = Some(FALSE)]
    /\ UNCHANGED <<store, svars, mvars, ctask, cread, gvars, ovars>>

\* updateTaskStatus(taskId, CANCELLED): saved; true.
CancelSave(k) ==
    /\ cpc[k] = "save"
    /\ store' = save(The(ctask[k]), The(cent[k]))
    /\ cent' = [cent EXCEPT ![k] = None]
    /\ cres' = [cres EXCEPT ![k] = Some(TRUE)]
    /\ cpc' = [cpc EXCEPT ![k] = "done"]
    /\ UNCHANGED <<svars, mvars, ctask, cread, gvars, ovars>>

\* updateTaskStatus(taskId, CANCELLED): findOne or save rejected: caught, false.
CancelUpdateFails(k) ==
    /\ cpc[k] \in {"find", "save"}
    /\ cent' = [cent EXCEPT ![k] = None]
    /\ cres' = [cres EXCEPT ![k] = Some(FALSE)]
    /\ cpc' = [cpc EXCEPT ![k] = "done"]
    /\ UNCHANGED <<store, svars, mvars, ctask, cread, gvars, ovars>>

cancelTask(k) ==
    \/ \E t \in Tasks : CancelRead(k, t)
    \/ \E t \in Tasks : CancelReadFails(k, t)
    \/ CancelFind(k)
    \/ CancelSave(k)
    \/ CancelUpdateFails(k)

\* ------------------------------------------------------------ specification

Next ==
    \/ \E t \in Tasks : submitTransaction(t)
    \/ \E t \in Tasks : monitor(t)
    \/ \E k \in Cancels : cancelTask(k)

Spec == Init /\ [][Next]_vars

\* --------------- RelayService.monitorTransaction: timers and invocations

\* monitorTransaction seen as the event loop runs it: setTimeout adds a
\* pending callback, a callback that fires starts an invocation of monitor,
\* and an invocation advances from await to await until it returns.  Nothing
\* here presumes that one invocation ends before the next one starts.

\* The variables a step of monitorTransaction leaves alone.
notloop == <<store, svars, mpc, mcall, ment, cvars, gvars, pvars, evars, wallet, now, cache, gp, eg, health, vcall, query>>

Inc(bag, a) == [bag EXCEPT ![a] = @ + 1]
Dec(bag, a) == [bag EXCEPT ![a] = @ - 1]

\* monitorTransaction is called: retries = 0 and the first setTimeout.
MonitorTransaction(t) ==
    /\ ~monitored[t]
    /\ monitored' = [monitored EXCEPT ![t] = TRUE]
    /\ retries' = [retries EXCEPT ![t] = 0]
    /\ timers' = [timers EXCEPT ![t] = @ + 1]
    /\ UNCHANGED <<running, polls, notloop>>

\* A repeating timer (setInterval) in place of setTimeout.
TimerFires_interval(t) ==
    /\ timers[t] > 0
    /\ running' = [running EXCEPT ![t] = Inc(@, "receipt")]
    /\ polls' = [polls EXCEPT ![t] = @ + 1]
    /\ UNCHANGED <<monitored, retries, timers, notloop>>

\* A pending callback fires: an invocation of monitor starts and asks for
\* the receipt.
TimerFires(t) ==
    /\ timers[t] > 0
    /\ timers' = [timers EXCEPT ![t] = @ - 1]
    /\ running' = [running EXCEPT ![t] = Inc(@, "receipt")]
    /\ polls' = [polls EXCEPT ![t] = @ + 1]
    /\ UNCHANGED <<monitored, retries, notloop>>

\* The catch block of an invocation that was at await a.
TimerCatch(t, a) ==
    /\ retries' = [retries EXCEPT ![t] = @ + 1]
    /\ IF exhausted(retries[t] + 1)
       THEN /\ running' = [running EXCEPT ![t] = Inc(Dec(@, a), "catch_update")]
            /\ timers' = timers
       ELSE /\ running' = [running EXCEPT ![t] = Dec(@, a)]
            /\ timers' = [timers EXCEPT ![t] = @ + 1]

\* A receipt came back: updateTaskStatus is awaited.
TimerReceipt(t) ==
    /\ running[t]["receipt"] > 0
    /\ running' = [running EXCEPT ![t] = Inc(Dec(@, "receipt"), "update")]
    /\ UNCHANGED <<monitored, retries, timers, polls, notloop>>

\* null came back: retries++, then the timeout update or the next setTimeout.
TimerNoReceipt(t) ==
    /\ running[t]["receipt"] > 0
    /\ retries' = [retries EXCEPT ![t] = @ + 1]
    /\ IF exhausted(retries[t] + 1)
       THEN /\ running' = [running EXCEPT ![t] = Inc(Dec(@, "receipt"), "update")]
            /\ timers' = timers
       ELSE /\ running' = [running EXCEPT ![t] = Dec(@, "receipt")]
            /\ timers' = [timers EXCEPT ![t] = @ + 1]
    /\ UNCHANGED <<monitored, polls, notloop>>

\* The poll raised.
TimerPollRaises(t) ==
    /\ running[t]["receipt"] > 0
    /\ TimerCatch(t, "receipt")
    /\ UNCHANGED <<monitored, polls, notloop>>

\* The updateTaskStatus of the try block resolved: the invocation returns.
TimerUpdated(t) ==
    /\ running[t]["update"] > 0
    /\ running' = [running EXCEPT ![t] = Dec(@, "update")]
    /\ UNCHANGED <<monitored, retries, timers, polls, notloop>>

\* The updateTaskStatus of the try block rejected.
TimerUpdateFails(t) ==
    /\ running[t]["update"] > 0
    /\ TimerCatch(t, "update")
    /\ UNCHANGED <<monitored, polls, notloop>>

\* The updateTaskStatus of the catch block settled: the invocation is over.
TimerCatchUpdateEnds(t) ==
    /\ running[t]["catch_update"] > 0
    /\ running' = [running EXCEPT ![t] = Dec(@, "catch_update")]
    /\ UNCHANGED <<monitored, retries, timers, polls, notloop>>

monitorTransaction(t) ==
    \/ MonitorTransaction(t)
    \/ TimerFires(t)
    \/ TimerReceipt(t)
    \/ TimerNoReceipt(t)
    \/ TimerPollRaises(t)
    \/ TimerUpdated(t)
    \/ TimerUpdateFails(t)
    \/ TimerCatchUpdateEnds(t)

LoopNext == \E t \in Tasks : monitorTransaction(t)

LoopSpec == Init /\ [][LoopNext]_vars

\* -------------------------------- BaseProviderService.executeWithFallback

\* The variables a step of executeWithFallback leaves alone.
notpool == <<store, svars, mvars, cvars, gvars, lvars, rpcUrls, evars, wallet, now, cache, gp, eg, health, vcall, query>>

\* The URLs the environment can configure for the chains.
RpcUrlChoices ==
    { urls \in [PoolChains -> MainnetRpcUrls \cup HardhatRpcUrls] :
        urls[1] \in MainnetRpcUrls /\ urls[31337] \in HardhatRpcUrls }

PoolInit ==
    /\ InitRelay
    /\ InitLoop
    /\ InitGas
    /\ InitWallet
    /\ InitPrices
    /\ InitEstimate
    /\ InitHealth
    /\ InitValidate
    /\ InitQuery
    /\ \E urls \in RpcUrlChoices : InitPool(urls)

OperationResult(provider) == <<"result of endpoint ", ToString(provider)>>

Returned(value) == [raised |-> FALSE, value |-> value, message |-> << >>]
Thrown(message) == [raised |-> TRUE, value |-> << >>, message |-> message]

\* A line of the log: the endpoint attempted and how the attempt ended.
LogEntry(entry, failed, message) ==
    [name |-> entry.name, provider |-> entry.provider, failed |-> failed, message |-> message]

\* The entry of sortedProviders the call is attempting.
Attempted(call) == call.sortedProviders[call.index]

\* The call starts: the providers of the chain are sorted and the operation
\* is started on the first, raced against the timer.  The calls are numbered
\* in the order in which they start.
ExecStart(k, chainId) ==
    /\ exec[k].pc = "idle"
    /\ \A j \in 1..(k - 1) : exec[j].pc # "idle"
    /\ exec' = [exec EXCEPT ![k] =
          [NoCall EXCEPT !.pc = "attempt", !.chainId = chainId, !.index = 1,
                         !.sortedProviders = sortedProviders(chainProviders[chainId]),
                         !.currentAtStart = chainProviders[chainId].currentProvider,
                         !.running = {sortedProviders(chainProviders[chainId])[1].provider}]]
    /\ UNCHANGED <<chainProviders, notpool>>

\* The operation resolved before the timer: the provider becomes the current
\* one of the chain and the result is returned.
ExecResult(k) ==
    LET call == exec[k]
        entry == Attempted(call)
    IN  /\ call.pc = "attempt"
        /\ chainProviders' =
              [chainProviders EXCEPT ![call.chainId].currentProvider = entry.provider]
        /\ exec' = [exec EXCEPT ![k] =
              [call EXCEPT !.pc = "done",
                           !.log = Append(@, LogEntry(entry, FALSE, << >>)),
                           !.outcome = Some(Returned(OperationResult(entry.provider))),
                           !.running = @ \ {entry.provider},
                           !.resolved = @ \cup {entry.provider}]]
        /\ UNCHANGED notpool

\* A failed attempt where lastError keeps the first error.
ExecAttemptFails_first(k, timedOut) ==
    LET call == exec[k]
        entry == Attempted(call)
        message == IF timedOut THEN ProviderTimeout ELSE RpcError(entry.provider)
        lastError == IF call.lastError = None THEN Some(message) ELSE call.lastError
        log == Append(call.log, LogEntry(entry, TRUE, message))
        left == IF timedOut THEN call.running ELSE call.running \ {entry.provider}
    IN  /\ call.pc = "attempt"
        /\ exec' = [exec EXCEPT ![k] =
              IF call.index < Len(call.sortedProviders)
              THEN [call EXCEPT !.index = @ + 1, !.lastError = lastError, !.log = log,
                      !.running = left \cup {call.sortedProviders[call.index + 1].provider}]
              ELSE [call EXCEPT !.pc = "done", !.lastError = lastError, !.log = log,
                      !.running = left,
                      !.outcome = Some(Thrown(
                          AllProvidersFailed(call.chainId, The(lastError))))]]
        /\ UNCHANGED <<chainProviders, notpool>>

\* The attempt rejected, by the operation or by the timer (timedOut): the
\* error is kept as lastError and the operation is started on the next
\* provider; after the last provider the call throws.  Promise.race settles
\* with the timer and leaves the operation it raced running.
ExecAttemptFails(k, timedOut) ==
    LET call == exec[k]
        entry == Attempted(call)
        message == IF timedOut THEN ProviderTimeout ELSE RpcError(entry.provider)
        lastError == Some(message)
        log == Append(call.log, LogEntry(entry, TRUE, message))
        left == IF timedOut THEN call.running ELSE call.running \ {entry.provider}
    IN  /\ call.pc = "attempt"
        /\ exec' = [exec EXCEPT ![k] =
              IF call.index < Len(call.sortedProviders)
              THEN [call EXCEPT !.index = @ + 1, !.lastError = lastError, !.log = log,
                      !.running = left \cup {call.sortedProviders[call.index + 1].provider}]
              ELSE [call EXCEPT !.pc = "done", !.lastError = lastError, !.log = log,
                      !.running = left,
                      !.outcome = Some(Thrown(
                          AllProvidersFailed(call.chainId, The(lastError))))]]
        /\ UNCHANGED <<chainProviders, notpool>>

\* An operation that the timer of Promise.race outran settles: it resolves
\* (the endpoint did what was asked of it) or rejects, and the promise of
\* the race, settled already, ignores it.
ExecLateSettles(k, provider, resolves) ==
    LET call == exec[k]
    IN  /\ provider \in call.running
        /\ call.pc = "attempt" => provider # Attempted(call).provider
        /\ exec' = [exec EXCEPT ![k] =
              [call EXCEPT !.running = @ \ {provider},
                           !.resolved = IF resolves THEN @ \cup {provider} ELSE @]]
        /\ UNCHANGED <<chainProviders, notpool>>

\* getProviderStats of a chain of the pool: the size of the providers Map,
\* the name under which the current provider is registered (none if it is
\* under no name), and the names.
getProviderStats(chainId) ==
    LET chainProvider == chainProviders[chainId]
        entries == chainProvider.providers
        holding == {i \in DOMAIN entries :
                       entries[i].provider = chainProvider.currentProvider}
    IN  [ totalProviders |-> Len(entries),
          currentProvider |-> IF holding = {} THEN None
                              ELSE Some(entries[Min(holding)].name),
          availableProviders |-> [i \in DOMAIN entries |-> entries[i].name] ]

executeWithFallback(k) ==
    \/ \E chainId \in PoolChains : ExecStart(k, chainId)
    \/ ExecResult(k)
    \/ \E timedOut \in BOOLEAN : ExecAttemptFails(k, timedOut)

\* The calls as the caller sees them; an operation the timer outran settles
\* in ExecLateSettles, which changes nothing a call or the pool reads.
PoolNext == \E k \in Calls : executeWithFallback(k)

PoolSpec == PoolInit /\ [][PoolNext]_vars

\* --------------------- RelayService.submitTransaction: the gas parameters

\* submitTransaction of a request for a supported chain, followed for what
\* it does with the gas fields; the Task Store and the Transaction Submitter
\* answer (their failures are steps of Spec).

\* The variables a step of this view leaves alone.
notgas == <<store, svars, mvars, cvars, gvars, lvars, pvars, wallet, now, cache, gp, eg, health, vcall, query>>

\* { ...a, ...b } for the gas fields: a field that b has replaces that of a.
Spread(a, b) ==
    [ gasLimit |-> IF b.gasLimit # None THEN b.gasLimit ELSE a.gasLimit,
      gasPrice |-> IF b.gasPrice # None THEN b.gasPrice ELSE a.gasPrice,
      maxFeePerGas |-> IF b.maxFeePerGas # None THEN b.maxFeePerGas ELSE a.maxFeePerGas,
      maxPriorityFeePerGas |->
          IF b.maxPriorityFeePerGas # None THEN b.maxPriorityFeePerGas
          ELSE a.maxPriorityFeePerGas ]

\* !gasParams.gasPrice && !gasParams.maxFeePerGas
needsEstimate(params) == ~TruthyStr(params.gasPrice) /\ ~TruthyStr(params.maxFeePerGas)

\* The call starts: the chain is supported and createTask is called.
GasStart(request) ==
    /\ gpc = "idle"
    /\ greq' = Some(request)
    /\ created' = TRUE
    /\ gpc' = "create"
    /\ UNCHANGED <<gasParams, estimateCalls, walletParams, notgas>>

\* createTask resolved: gasParams is built from the request, and the Gas
\* Estimator is called when it has neither gasPrice nor maxFeePerGas.
GasResolve ==
    LET request == The(greq)
        params == [ gasLimit |-> IF TruthyNum(request.gasLimit) THEN request.gasLimit
                                 ELSE Some(500000),
                    gasPrice |-> request.gasPrice,
                    maxFeePerGas |-> request.maxFeePerGas,
                    maxPriorityFeePerGas |-> request.maxPriorityFeePerGas ]
    IN  /\ gpc = "create"
        /\ gasParams' = Some(params)
        /\ IF needsEstimate(params)
           THEN /\ estimateCalls' = estimateCalls + 1
                /\ gpc' = "estimate"
           ELSE /\ estimateCalls' = estimateCalls
                /\ gpc' = "broadcast"
        /\ UNCHANGED <<greq, created, walletParams, notgas>>

\* estimateGas returned: gasParams = { ...gasParams, ...gasEstimation }.
GasEstimated(gasEstimation) ==
    /\ gpc = "estimate"
    /\ gasParams' = Some(Spread(The(gasParams), gasEstimation))
    /\ gpc' = "broadcast"
    /\ UNCHANGED <<greq, created, estimateCalls, walletParams, notgas>>

\* walletService.submitTransaction({ ...request, ...gasParams }) is called.
GasBroadcast ==
    /\ gpc = "broadcast"
    /\ walletParams' = Some(Spread(The(greq), The(gasParams)))
    /\ gpc' = "done"
    /\ UNCHANGED <<greq, gasParams, created, estimateCalls, notgas>>

GasNext ==
    \/ \E request \in GasRequests : GasStart(request)
    \/ GasResolve
    \/ \E gasEstimation \in GasEstimations : GasEstimated(gasEstimation)
    \/ GasBroadcast

GasSpec == Init /\ [][GasNext]_vars

\* ------------------------------------------ WalletService.submitTransaction

\* The variables a step of WalletService.submitTransaction itself leaves
\* alone; its executeWithFallback call is the first call of the pool.
notwallet == <<store, svars, mvars, cvars, gvars, lvars, pvars, evars, now, cache, gp, eg, health, vcall, query>>

\* The transaction object built from the params.
NewTransaction(params) ==
    [ gasLimit |-> params.gasLimit, gasPrice |-> None, maxFeePerGas |-> None,
      maxPriorityFeePerGas |-> None, type |-> None ]

\* A call that copies every gas field the params have into the transaction.
WalletSubmit_mixed(params) ==
    /\ wallet.pc = "idle"
    /\ wallet' =
          [wallet EXCEPT !.pc = "send", !.params = Some(params),
              !.transaction = Some(
                  [NewTransaction(params) EXCEPT
                      !.gasPrice = params.gasPrice,
                      !.maxFeePerGas = params.maxFeePerGas,
                      !.maxPriorityFeePerGas = params.maxPriorityFeePerGas,
                      !.type = Some(2)])]
    /\ UNCHANGED notwallet

\* The call: the transaction is built with both fee-market fields (type 2),
\* else with gasPrice (type 0), else the call throws, which its catch block
\* rethrows.
WalletSubmit(params) ==
    /\ wallet.pc = "idle"
    /\ wallet' =
          IF TruthyStr(params.maxFeePerGas) /\ TruthyStr(params.maxPriorityFeePerGas)
          THEN [wallet EXCEPT !.pc = "send", !.params = Some(params),
                   !.transaction = Some(
                       [NewTransaction(params) EXCEPT
                           !.maxFeePerGas = params.maxFeePerGas,
                           !.maxPriorityFeePerGas = params.maxPriorityFeePerGas,
                           !.type = Some(2)])]
          ELSE IF TruthyStr(params.gasPrice)
          THEN [wallet EXCEPT !.pc = "send", !.params = Some(params),
                   !.transaction = Some(
                       [NewTransaction(params) EXCEPT
                           !.gasPrice = params.gasPrice, !.type = Some(0)])]
          ELSE [wallet EXCEPT !.pc = "done", !.params = Some(params),
                   !.outcome = Some(Thrown(WalletSubmissionFailed(MissingGasParameters)))]
    /\ UNCHANGED notwallet

\* executeWithFallback is called with sendTransaction(transaction) as the
\* operation, for the chain of the params.
WalletSend ==
    /\ wallet.pc = "send"
    /\ ExecStart(1, The(wallet.params).chainId)

\* An attempt of that call ends: the endpoint accepted the transaction and
\* returned its hash, or the attempt rejected.
WalletAttempt ==
    /\ wallet.pc = "send"
    /\ \/ ExecResult(1)
       \/ \E timedOut \in BOOLEAN : ExecAttemptFails(1, timedOut)

\* executeWithFallback ended: the hash is returned, or its error is rethrown
\* by the catch block.
WalletReturn ==
    /\ wallet.pc = "send"
    /\ exec[1].pc = "done"
    /\ wallet' =
          [wallet EXCEPT !.pc = "done",
              !.outcome = Some(
                  IF The(exec[1].outcome).raised
                  THEN Thrown(WalletSubmissionFailed(The(exec[1].outcome).message))
                  ELSE The(exec[1].outcome))]
    /\ UNCHANGED notwallet

\* A sendTransaction that the timer outran settles: the endpoint accepted
\* the transaction after all, or the send rejected.
WalletLate ==
    /\ wallet.pc \in {"send", "done"}
    /\ \E provider \in exec[1].running : \E resolves \in BOOLEAN :
          ExecLateSettles(1, provider, resolves)

WalletNext ==
    \/ \E params \in WalletParams : WalletSubmit(params)
    \/ WalletSend
    \/ WalletAttempt
    \/ WalletReturn
    \/ WalletLate

WalletSpec == Init /\ [][WalletNext]_vars

\* ------------------------------------------ GasEstimatorService.getGasPrices

\* getGasPrices calls, which may overlap, with the shared cache and the
\* clock.  The executeWithFallback call of getGasPrices is followed as far as
\* its outcome: the fee data an endpoint returned, or its exhaustion.

\* The variables a step of getGasPrices leaves alone.
notprices == <<store, svars, mvars, cvars, gvars, lvars, pvars, evars, wallet, eg, health, vcall, query>>

\* A cache that never has the entry.
cacheGet_absent(chainId) == None

\* redis.get of the entry of the chain: the entry, unless it is absent or
\* its time to live has passed.
cacheGet(chainId) ==
    IF cache[chainId] # None /\ now < The(cache[chainId]).expiresAt
    THEN cache[chainId] ELSE None

\* Time passes.
ClockTick ==
    /\ now + Tick <= MaxTime
    /\ now' = now + Tick
    /\ UNCHANGED <<cache, gp, notprices>>

\* The call starts: cacheService.get is called.
GpStart(k, chainId) ==
    /\ gp[k].pc = "idle"
    /\ \A j \in GpCalls : j < k => gp[j].pc # "idle"
    /\ gp' = [gp EXCEPT ![k] =
          [NoGpCall EXCEPT !.pc = "get", !.chainId = chainId, !.startedAt = now,
                           !.after = {j \in GpCalls : gp[j].pc = "done"}]]
    /\ UNCHANGED <<now, cache, notprices>>

\* The cache had the entry: its value is returned.
GpCacheHit(k) ==
    LET call == gp[k]
        cached == cacheGet(call.chainId)
    IN  /\ call.pc = "get"
        /\ cached # None
        /\ gp' = [gp EXCEPT ![k] =
              [call EXCEPT !.pc = "done", !.readAt = now,
                           !.prices = Some(The(cached).value),
                           !.storedAt = Some(The(cached).storedAt)]]
        /\ UNCHANGED <<now, cache, notprices>>

\* cacheService.get returned null, the entry being absent or the read having
\* failed (failed): executeWithFallback is called for the fee data.
GpCacheMiss(k, failed) ==
    LET call == gp[k]
    IN  /\ call.pc = "get"
        /\ failed \/ cacheGet(call.chainId) = None
        /\ gp' = [gp EXCEPT ![k] =
              [call EXCEPT !.pc = "fetch", !.readAt = now, !.readFailed = failed,
                           !.queried = TRUE]]
        /\ UNCHANGED <<now, cache, notprices>>

\* An endpoint returned the fee data: the prices are computed and
\* cacheService.set is called.
GpFetched(k, feeData) ==
    LET call == gp[k]
    IN  /\ call.pc = "fetch"
        /\ gp' = [gp EXCEPT ![k] =
              [call EXCEPT !.pc = "set", !.fetched = TRUE,
                           !.prices = Some(GasPrices(feeData))]]
        /\ UNCHANGED <<now, cache, notprices>>

\* Every endpoint failed: the catch block returns the fallback prices.
GpFetchFails(k) ==
    LET call == gp[k]
    IN  /\ call.pc = "fetch"
        /\ gp' = [gp EXCEPT ![k] = [call EXCEPT !.pc = "done", !.prices = Some(FallbackPrices)]]
        /\ UNCHANGED <<now, cache, notprices>>

\* The entry was stored, to live CACHE_TTL seconds: the prices are returned.
GpStored(k) ==
    LET call == gp[k]
    IN  /\ call.pc = "set"
        /\ cache' = [cache EXCEPT ![call.chainId] =
              Some([value |-> The(call.prices), storedAt |-> now,
                    expiresAt |-> now + CACHE_TTL])]
        /\ gp' = [gp EXCEPT ![k] = [call EXCEPT !.pc = "done", !.storedAt = Some(now)]]
        /\ UNCHANGED <<now, notprices>>

\* The store failed, which cacheService.set only logs: the prices are
\* returned.
GpStoreFails(k) ==
    LET call == gp[k]
    IN  /\ call.pc = "set"
        /\ gp' = [gp EXCEPT ![k] = [call EXCEPT !.pc = "done"]]
        /\ UNCHANGED <<now, cache, notprices>>

getGasPrices(k) ==
    \/ \E chainId \in PoolChains : GpStart(k, chainId)
    \/ GpCacheHit(k)
    \/ \E failed \in BOOLEAN : GpCacheMiss(k, failed)
    \/ \E feeData \in FeeDatas : GpFetched(k, feeData)
    \/ GpFetchFails(k)
    \/ GpStored(k)
    \/ GpStoreFails(k)

PricesNext ==
    \/ ClockTick
    \/ \E k \in GpCalls : getGasPrices(k)

PricesSpec == Init /\ [][PricesNext]_vars

\* ------------------------------------------- GasEstimatorService.estimateGas

\* estimateGas calls, one after the other, each with the getGasPrices call
\* it makes.  Its executeWithFallback calls are followed as far as their
\* outcome: what an endpoint returned, or their exhaustion.

\* The variables a step of estimateGas itself leaves alone.
notestimate ==
    <<store, svars, mvars, cvars, gvars, lvars, pvars, evars, wallet, now, cache, gp, health, vcall, query>>

\* The catch block's estimation with an empty gasPrice.
FallbackEstimation_unpriced ==
    [ gasLimit |-> DEFAULT_GAS_LIMIT, gasPrice |-> "",
      maxFeePerGas |-> None, maxPriorityFeePerGas |-> None,
      estimatedCost |-> ToString(0) ]

\* The estimation of the catch block of estimateGas.
FallbackEstimation ==
    [ gasLimit |-> DEFAULT_GAS_LIMIT, gasPrice |-> ToString(FallbackGasPrice),
      maxFeePerGas |-> None, maxPriorityFeePerGas |-> None,
      estimatedCost |-> ToString(DEFAULT_GAS_LIMIT * FallbackGasPrice) ]

\* The estimation without fee-market fields.
LegacyEstimation(call) ==
    [ gasLimit |-> call.gasLimit, gasPrice |-> call.gasPrice,
      maxFeePerGas |-> None, maxPriorityFeePerGas |-> None,
      estimatedCost |-> call.estimatedCost ]

\* The call starts: executeWithFallback is called for the simulation.
EgStart(chainId) ==
    /\ eg.pc \in {"idle", "done"}
    /\ eg.call + 1 \in GpCalls
    /\ eg' = [NoEgCall EXCEPT !.pc = "simulate", !.call = eg.call + 1, !.chainId = chainId]
    /\ UNCHANGED notestimate

\* An endpoint returned the estimate: the gas limit is the estimate with the
\* buffer, and getGasPrices is called.
EgSimulated(gasEstimate) ==
    /\ eg.pc = "simulate"
    /\ eg' = [eg EXCEPT !.pc = "prices", !.simulated = Some(gasEstimate),
                        !.gasLimit = Buffered(gasEstimate)]
    /\ UNCHANGED notestimate

\* The simulation failed on every endpoint: the gas limit is the default.
EgSimulationFails ==
    /\ eg.pc = "simulate"
    /\ eg' = [eg EXCEPT !.pc = "prices", !.gasLimit = DEFAULT_GAS_LIMIT]
    /\ UNCHANGED notestimate

\* A step of the getGasPrices call.
EgPrices ==
    /\ eg.pc = "prices"
    /\ \/ GpStart(eg.call, eg.chainId)
       \/ GpCacheHit(eg.call)
       \/ \E failed \in BOOLEAN : GpCacheMiss(eg.call, failed)
       \/ \E feeData \in FeeDatas : GpFetched(eg.call, feeData)
       \/ GpFetchFails(eg.call)
       \/ GpStored(eg.call)
       \/ GpStoreFails(eg.call)

\* getGasPrices returned: the gas price is the standard one, the cost is
\* computed, and supportsEIP1559 calls executeWithFallback for the fee data.
EgPriced ==
    LET gasPrice == The(gp[eg.call].prices).standard
    IN  /\ eg.pc = "prices"
        /\ gp[eg.call].pc = "done"
        /\ eg' = [eg EXCEPT !.pc = "supports", !.gasPrice = gasPrice,
                            !.estimatedCost = ToString(eg.gasLimit * BigInt(gasPrice))]
        /\ UNCHANGED notestimate

\* supportsEIP1559 got the fee data: with both fee-market fields not null
\* executeWithFallback is called for the fee data again, else the
\* estimation without them is returned.
EgSupports(feeData) ==
    /\ eg.pc = "supports"
    /\ eg' =
          IF feeData.maxFeePerGas # None /\ feeData.maxPriorityFeePerGas # None
          THEN [eg EXCEPT !.pc = "feeData", !.checked = Some(feeData)]
          ELSE [eg EXCEPT !.pc = "done", !.checked = Some(feeData),
                          !.result = Some(LegacyEstimation(eg))]
    /\ UNCHANGED notestimate

\* The query of supportsEIP1559 failed on every endpoint: it returns false.
EgSupportsFails ==
    /\ eg.pc = "supports"
    /\ eg' = [eg EXCEPT !.pc = "done", !.result = Some(LegacyEstimation(eg))]
    /\ UNCHANGED notestimate

\* The fee data came: the estimation has the fee-market fields.
EgFeeData(feeData) ==
    /\ eg.pc = "feeData"
    /\ eg' = [eg EXCEPT !.pc = "done", !.feeData = Some(feeData),
                !.result = Some(
                    [LegacyEstimation(eg) EXCEPT
                        !.maxFeePerGas = Some(FeeOr(feeData.maxFeePerGas, eg.gasPrice)),
                        !.maxPriorityFeePerGas =
                            Some(FeeOr(feeData.maxPriorityFeePerGas,
                                       ToString(DefaultPriorityFee)))])]
    /\ UNCHANGED notestimate

\* The query failed on every endpoint: the catch block of estimateGas
\* returns the fallback estimation.
EgFeeDataFails ==
    /\ eg.pc = "feeData"
    /\ eg' = [eg EXCEPT !.pc = "done", !.result = Some(FallbackEstimation)]
    /\ UNCHANGED notestimate

EstimateNext ==
    \/ \E chainId \in PoolChains : EgStart(chainId)
    \/ \E gasEstimate \in GasEstimates : EgSimulated(gasEstimate)
    \/ EgSimulationFails
    \/ EgPrices
    \/ EgPriced
    \/ \E feeData \in FeeDatas : EgSupports(feeData)
    \/ EgSupportsFails
    \/ \E feeData \in FeeDatas : EgFeeData(feeData)
    \/ EgFeeDataFails

EstimateSpec == Init /\ [][EstimateNext]_vars

\* ------------------------------------------------- RelayService.checkHealth

\* RelayService.checkHealth calls, one after the other, each with the
\* checkHealth of the Transaction Submitter, of the Gas Estimator (and the
\* getGasPrices call it makes) and of the Task Store, while time passes.
\* The wallet address is that of a constructed wallet, which
\* ethers.isAddress accepts.

\* The variables a step of the checks themselves leaves alone.
nothealth ==
    <<store, svars, mvars, cvars, gvars, lvars, pvars, evars, wallet, now, cache, gp, eg, vcall, query>>

\* The last step of a call whose result is true as soon as one component is.
HealthTracker_any(counted) ==
    /\ health.pc = "tracker"
    /\ health' = [health EXCEPT !.pc = "done", !.taskTrackerHealthy = Some(counted),
                     !.result = Some(\/ The(health.walletHealthy)
                                     \/ The(health.gasEstimatorHealthy)
                                     \/ counted)]
    /\ UNCHANGED nothealth

\* The call starts: walletService.checkHealth is called, which calls
\* executeWithFallback for the block number of the first chain.
HealthStart ==
    /\ health.pc \in {"idle", "done"}
    /\ health.call + 1 \in GpCalls
    /\ health' = [NoHealthCall EXCEPT !.pc = "wallet", !.call = health.call + 1, !.index = 1]
    /\ UNCHANGED nothealth

\* WalletService.checkHealth: an endpoint of the chain answered (answered),
\* and it returns true, or every endpoint failed, and it goes on to the next
\* chain and returns false after the last.  gasEstimator.checkHealth is
\* called when it returned.
HealthWallet(answered) ==
    /\ health.pc = "wallet"
    /\ health' =
          IF answered
          THEN [health EXCEPT !.pc = "estimator", !.walletHealthy = Some(TRUE)]
          ELSE IF health.index < Len(getSupportedChains)
          THEN [health EXCEPT !.index = @ + 1]
          ELSE [health EXCEPT !.pc = "estimator", !.walletHealthy = Some(FALSE)]
    /\ UNCHANGED nothealth

\* GasEstimatorService.checkHealth: a step of getGasPrices for the first
\* chain.
HealthPrices ==
    /\ health.pc = "estimator"
    /\ \/ GpStart(health.call, getSupportedChains[1])
       \/ GpCacheHit(health.call)
       \/ \E failed \in BOOLEAN : GpCacheMiss(health.call, failed)
       \/ \E feeData \in FeeDatas : GpFetched(health.call, feeData)
       \/ GpFetchFails(health.call)
       \/ GpStored(health.call)
       \/ GpStoreFails(health.call)

\* getGasPrices returned: GasEstimatorService.checkHealth returns true, and
\* taskTracker.checkHealth is called.
HealthEstimator ==
    /\ health.pc = "estimator"
    /\ gp[health.call].pc = "done"
    /\ health' = [health EXCEPT !.pc = "tracker", !.gasEstimatorHealthy = Some(TRUE)]
    /\ UNCHANGED nothealth

\* TaskTrackerService.checkHealth: the count query answered (counted), and
\* it returns true, or failed, and it returns false.  RelayService.checkHealth
\* returns the conjunction of the three.
HealthTracker(counted) ==
    /\ health.pc = "tracker"
    /\ health' = [health EXCEPT !.pc = "done", !.taskTrackerHealthy = Some(counted),
                     !.result = Some(/\ The(health.walletHealthy)
                                     /\ The(health.gasEstimatorHealthy)
                                     /\ counted)]
    /\ UNCHANGED nothealth

HealthNext ==
    \/ HealthStart
    \/ \E answered \in BOOLEAN : HealthWallet(answered)
    \/ HealthPrices
    \/ HealthEstimator
    \/ \E counted \in BOOLEAN : HealthTracker(counted)
    \/ ClockTick

HealthSpec == Init /\ [][HealthNext]_vars

\* ------------------------------------ GasEstimatorService.validateGasParams

\* The variables validateGasParams leaves alone.
notvalidate ==
    <<store, svars, mvars, cvars, gvars, lvars, pvars, evars, wallet, now, cache, gp, eg,
      health, query>>

\* The service as constructed, and a call with some arguments.
ValidateInit ==
    /\ InitRelay
    /\ InitLoop
    /\ InitPool(DefaultRpcUrls)
    /\ InitGas
    /\ InitWallet
    /\ InitPrices
    /\ InitEstimate
    /\ InitHealth
    /\ InitQuery
    /\ \E args \in ValidateArgs : vcall = [NoValidateCall EXCEPT !.pc = "called", !.args = Some(args)]

\* The call returns.
Validate ==
    /\ vcall.pc = "called"
    /\ vcall' = [vcall EXCEPT !.pc = "returned",
                    !.result = Some(validateGasParams(The(vcall.args).gasLimit,
                                                      The(vcall.args).gasPrice,
                                                      The(vcall.args).maxFeePerGas))]
    /\ UNCHANGED notvalidate

ValidateNext == Validate

ValidateSpec == ValidateInit /\ [][ValidateNext]_vars

\* ------------------------------------------------ RelayService.getTaskStatus

\* getTaskStatus calls while submitTransaction calls write the Task Store.

\* The variables a step of getTaskStatus leaves alone.
notquery ==
    <<store, svars, mvars, cvars, gvars, lvars, pvars, evars, wallet, now, cache, gp, eg,
      health, vcall>>

\* The call starts: taskTracker.getTaskStatus calls findOne.
QueryStart(k, taskId) ==
    /\ query[k].pc = "idle"
    /\ \A j \in QueryCalls : j < k => query[j].pc # "idle"
    /\ query' = [query EXCEPT ![k] = [NoQuery EXCEPT !.pc = "find", !.taskId = taskId]]
    /\ UNCHANGED notquery

\* A call whose read also clears the error of the record.
QueryReturns_touch(k) ==
    LET call == query[k]
        status == getTaskStatus(call.taskId)
    IN  /\ call.pc = "find"
        /\ query' = [query EXCEPT ![k] =
              [call EXCEPT !.pc = "done", !.at = Some(store),
                  !.outcome = Some(IF status.raised THEN Thrown(NotFound(call.taskId))
                                   ELSE Returned(The(status.value)))]]
        /\ store' = [t \in DOMAIN store |->
                        IF t = call.taskId THEN [store[t] EXCEPT !.error = None] ELSE store[t]]
        /\ UNCHANGED <<svars, mvars, cvars, gvars, lvars, pvars, evars, wallet, now, cache,
                       gp, eg, health, vcall>>

\* findOne returned: the snapshot of the record is returned, or, there being
\* no record, the not-found error is raised, caught, and raised again.
QueryReturns(k) ==
    LET call == query[k]
        status == getTaskStatus(call.taskId)
    IN  /\ call.pc = "find"
        /\ query' = [query EXCEPT ![k] =
              [call EXCEPT !.pc = "done", !.at = Some(store),
                  !.outcome = Some(IF status.raised THEN Thrown(NotFound(call.taskId))
                                   ELSE Returned(The(status.value)))]]
        /\ UNCHANGED notquery

\* findOne rejected: RelayService.getTaskStatus catches the error and raises
\* the not-found error.
QueryRejected(k) ==
    LET call == query[k]
    IN  /\ call.pc = "find"
        /\ query' = [query EXCEPT ![k] =
              [call EXCEPT !.pc = "done", !.at = Some(store), !.rejected = TRUE,
                           !.outcome = Some(Thrown(NotFound(call.taskId)))]]
        /\ UNCHANGED notquery

getStatus(k) ==
    \/ \E taskId \in Tasks : QueryStart(k, taskId)
    \/ QueryReturns(k)
    \/ QueryRejected(k)

StatusNext ==
    \/ \E t \in Tasks : submitTransaction(t)
    \/ \E k \in QueryCalls : getStatus(k)

StatusSpec == Init /\ [][StatusNext]_vars

\* ------------------------------------------- the relay with a working store

\* The relay when every Task Store write succeeds, every timer set fires and
\* every call that was started is run on: createTask and updateTaskStatus do
\* not reject, while the endpoints answer the broadcast and the polls with
\* results, absences and errors in any order.  One submitTransaction call
\* is followed, with the cancelTask calls and the monitoring loop that run
\* beside it; tasks share no record.  The steps of a submitTransaction call
\* after its start.
SubmitContinues(t) ==
    \/ \E hasGas \in BOOLEAN : SubmitCreate(t, hasGas)
    \/ SubmitEstimate(t)
    \/ \E hash \in Hashes : SubmitBroadcast(t, hash)
    \/ SubmitBroadcastFails(t)
    \/ SubmitUpdFind(t)
    \/ SubmitUpdSave(t)
    \/ SubmitCatchFind(t)
    \/ SubmitCatchSave(t)

\* The steps of the monitoring loop.
MonitorContinues(t) ==
    \/ MonitorFire(t)
    \/ \E raw \in ProviderReceipts : MonitorReceipt(t, raw)
    \/ MonitorNoReceipt(t)
    \/ MonitorPollRaises(t)
    \/ MonitorTryFind(t)
    \/ MonitorTrySave(t)
    \/ MonitorCatchFind(t)
    \/ MonitorCatchSave(t)

\* The steps of a cancelTask call; its read of the status may fail.
CancelContinues(k) ==
    \/ \E t \in Tasks : CancelRead(k, t)
    \/ \E t \in Tasks : CancelReadFails(k, t)
    \/ CancelFind(k)
    \/ CancelSave(k)

LiveNext ==
    \/ \E request \in Requests : SubmitStart(TaskIds[1], request)
    \/ \E t \in Tasks : SubmitContinues(t)
    \/ \E t \in Tasks : MonitorContinues(t)
    \/ \E k \in Cancels : CancelContinues(k)

\* The event loop runs the continuation of every await that settled and the
\* callback of every timer that is due; every call awaited settles, a call
\* of an endpoint at the latest by the timer it is raced against.
LiveFairness ==
    \A t \in Tasks : WF_vars(SubmitContinues(t)) /\ WF_vars(MonitorContinues(t))

LiveSpec == Init /\ [][LiveNext]_vars /\ LiveFairness

\* ------------------------------------------------------------------ claims

\* A step of the submitTransaction call of t, of its monitoring loop, of
\* cancelTask call k.
SubmitStep(t) == spc'[t] # spc[t]
MonitorStep(t) == mpc'[t] # mpc[t]
CancelStep(k) == cpc'[k] # cpc[k]

StatusChanges ==
    { <<PENDING, SUBMITTED>>, <<PENDING, FAILED>>, <<PENDING, CANCELLED>>,
      <<SUBMITTED, SUCCESS>>, <<SUBMITTED, FAILED>> }

\* C1: every change of a task's stored status is one of PENDING->SUBMITTED,
\* PENDING->FAILED, PENDING->CANCELLED, SUBMITTED->SUCCESS, SUBMITTED->FAILED.
C1_StatusMovesForward ==
    [][\A t \in DOMAIN store :
          store'[t].status # store[t].status
              => <<store[t].status, store'[t].status>> \in StatusChanges]_vars

\* C2: once a task's stored status is SUCCESS, FAILED or CANCELLED, no step
\* changes its status, transactionHash, blockNumber, gasUsed,
\* effectiveGasPrice or error.
C2_TerminalRecordImmutable ==
    [][\A t \in DOMAIN store :
          isFinalState(store[t].status)
              => /\ store'[t].status = store[t].status
                 /\ store'[t].transactionHash = store[t].transactionHash
                 /\ store'[t].blockNumber = store[t].blockNumber
                 /\ store'[t].gasUsed = store[t].gasUsed
                 /\ store'[t].effectiveGasPrice = store[t].effectiveGasPrice
                 /\ store'[t].error = store[t].error]_vars

\* C3 as stated: a cancelTask call that read a status returns true, having
\* written CANCELLED, exactly when that status is PENDING; otherwise it
\* returns false and the Task Store is unchanged.
C3_CancelTrueExactlyWhenPending ==
    [][\A k \in Cancels :
          (CancelStep(k) /\ cpc'[k] = "done" /\ cread'[k] # None)
              => IF cread'[k] = Some(PENDING)
                 THEN /\ cres'[k] = Some(TRUE)
                      /\ store'[The(ctask'[k])].status = CANCELLED
                 ELSE /\ cres'[k] = Some(FALSE)
                      /\ store' = store]_vars

\* C3 as amended: cancelTask returns true only when the status it read is
\* PENDING, and the step that returns true is the one that saved CANCELLED;
\* when it read any other status it returns false at once; a call that
\* returns false (other status, or its update rejected) and every step short
\* of the saving one leave the Task Store unchanged.
C3_CancelTrueOnlyWhenPendingAndSaved ==
    [][\A k \in Cancels :
          CancelStep(k)
              => /\ cres'[k] = Some(TRUE)
                     => /\ cread[k] = Some(PENDING)
                        /\ store'[The(ctask[k])].status = CANCELLED
                 /\ (cread'[k] # None /\ cread'[k] # Some(PENDING))
                     => cres'[k] = Some(FALSE)
                 /\ cres'[k] # Some(TRUE) => store' = store]_vars

\* C3 witness: a call that read PENDING returned true with CANCELLED stored.
C3_Witness ==
    \E k \in Cancels :
        /\ cread[k] = Some(PENDING)
        /\ cres[k] = Some(TRUE)
        /\ store[The(ctask[k])].status = CANCELLED

\* C4: once a task's stored status is SUBMITTED, no step of a cancelTask call
\* changes its record.
C4_SubmittedNeverCancelled ==
    [][\A k \in Cancels : \A t \in DOMAIN store :
          (CancelStep(k) /\ store[t].status = SUBMITTED)
              => store'[t] = store[t]]_vars

SubmissionFailed == <<"Transaction submission failed: ">> \o ProviderError
TimeoutError == <<"Transaction timeout - not confirmed within time limit">>
Submitted(t) == sres[t] = Some(Response(TRUE, <<"Transaction submitted successfully">>))

\* C5: when the Transaction Submitter fails after the PENDING record was
\* created, submitTransaction does not raise: it saves FAILED with the error
\* message and returns {success: false, message} with that message.
C5_SubmitFailureReturnedInBand ==
    [][\A t \in Tasks :
          (SubmitStep(t) /\ spc'[t] = "done" /\ serr[t] = Some(SubmissionFailed))
              => /\ sres'[t] = Some(Response(FALSE, SubmissionFailed))
                 /\ store'[t].status = FAILED
                 /\ store'[t].error = Some(SubmissionFailed)]_vars

\* C6: the monitoring loop of a task starts in the step that completes the
\* save of SUBMITTED with the hash the Transaction Submitter returned and
\* returns {success: true}, before any receipt poll; a success response is
\* returned by no other step; a receipt poll is made only after it.
C6_SubmittedSavedBeforeMonitoring ==
    [][\A t \in Tasks :
          /\ (mpc[t] = "off" /\ mpc'[t] # "off")
                => /\ spc[t] = "upd_save" /\ spc'[t] = "done"
                   /\ shash[t] # None
                   /\ store'[t].status = SUBMITTED
                   /\ store'[t].transactionHash = shash[t]
                   /\ mpc'[t] = "timer"
                   /\ polls'[t] = 0
                   /\ Submitted(t)'
          /\ (~Submitted(t) /\ Submitted(t)') => (mpc[t] = "off" /\ mpc'[t] = "timer")
          /\ polls'[t] # polls[t] => (Submitted(t) /\ spc[t] = "done")]_vars

\* C6 witness: a poll is in flight for a task stored as SUBMITTED with the
\* returned hash.
C6_Witness ==
    \E t \in DOMAIN store :
        /\ mpc[t] = "polling"
        /\ Submitted(t)
        /\ store[t].status = SUBMITTED
        /\ store[t].transactionHash = shash[t]
        /\ shash[t] # None

\* A request for a chain outside supportedChains.
Unsupported(t) == sreq[t] # None /\ The(sreq[t]).chainId \notin {1, 11155111, 31337}

\* C7: no step of a submitTransaction call whose chainId is outside
\* {1, 11155111, 31337} changes the Task Store, nor reaches the call of
\* createTask, of the Gas Estimator or of the Transaction Submitter, and the
\* call fails.
C7_UnsupportedChainTouchesNothing ==
    [][\A t \in Tasks :
          (SubmitStep(t) /\ Unsupported(t)')
              => /\ store' = store
                 /\ t \notin DOMAIN store'
                 /\ spc'[t] \notin {"create", "estimate", "broadcast"}
                 /\ broadcasts' = broadcasts
                 /\ spc'[t] = "done" => The(sres'[t]).raised]_vars

\* C7 witness: a call for an unsupported chain has failed while the Task
\* Store holds the record of another task.
C7_Witness ==
    \E t \in Tasks : \E u \in DOMAIN store :
        /\ Unsupported(t)
        /\ spc[t] = "done"
        /\ The(sres[t]).raised
        /\ u # t

TimeoutCall == UpdateCall(FAILED, [NoMetadata EXCEPT !.error = Some(TimeoutError)])
MonitorEnded(t) == mpc[t] \in {"done", "unhandled"}

\* C8: while polls find no receipt the loop reschedules; the poll that
\* brings the attempt counter to maxRetries is poll number maxRetries, it
\* makes the update to FAILED with the timeout error, whose save stores
\* exactly that; no poll is made once the counter has reached maxRetries, so
\* a loop ended by exhaustion has made exactly maxRetries polls.
C8_TimeoutAtMaxRetries ==
    [][\A t \in Tasks :
          /\ (mpc[t] = "polling" /\ mpc'[t] = "try_find" /\ retries'[t] # retries[t])
                => /\ retries'[t] = maxRetries
                   /\ polls[t] = maxRetries
                   /\ mcall'[t] = Some(TimeoutCall)
          /\ (mpc[t] = "polling" /\ mpc'[t] = "timer")
                => (retries'[t] < maxRetries /\ polls'[t] = retries'[t])
          /\ (mpc[t] = "try_save" /\ mpc'[t] = "done" /\ mcall[t] = Some(TimeoutCall))
                => /\ store'[t].status = FAILED
                   /\ store'[t].error = Some(TimeoutError)
          /\ polls'[t] # polls[t] => (retries[t] < maxRetries /\ polls[t] = retries[t])
          /\ (MonitorEnded(t)' /\ retries'[t] >= maxRetries) => polls'[t] = maxRetries]_vars

\* C8 witness: after maxRetries polls the loop has ended and the record is
\* FAILED with the timeout error.
C8_Witness ==
    \E t \in DOMAIN store :
        /\ mpc[t] = "done"
        /\ polls[t] = maxRetries
        /\ retries[t] = maxRetries
        /\ store[t].status = FAILED
        /\ store[t].error = Some(TimeoutError)

MonitoringFailed == <<"Monitoring failed: ">> \o ProviderError

\* C9: a poll that raises adds one to the attempt counter; the loop
\* reschedules exactly when the counter is then below maxRetries and
\* otherwise makes the update to FAILED, whose save stores FAILED; the
\* number of polls made for a task never exceeds maxRetries.
C9_RaisingPollsCountAsAttempts ==
    [][\A t \in Tasks :
          /\ polls'[t] <= maxRetries
          /\ (mpc[t] = "polling" /\ mpc'[t] \in {"timer", "catch_find"})
                => /\ retries'[t] = retries[t] + 1
                   /\ mpc'[t] = "timer" <=> retries'[t] < maxRetries
          /\ (mpc[t] = "polling" /\ mpc'[t] = "catch_find")
                => /\ The(mcall'[t]).status = FAILED
                   /\ The(mcall'[t]).metadata.error = Some(MonitoringFailed)
          /\ (mpc[t] = "catch_save" /\ mpc'[t] = "done")
                => /\ store'[t].status = FAILED
                   /\ store'[t].error = The(mcall[t]).metadata.error]_vars

\* C9 witness: the last of maxRetries polls raised and the record is FAILED
\* with the error of the failed monitoring.
C9_Witness ==
    \E t \in DOMAIN store :
        /\ mpc[t] = "done"
        /\ polls[t] = maxRetries
        /\ store[t].status = FAILED
        /\ store[t].error = Some(MonitoringFailed)

\* C10: the save that follows a receipt with status 1 stores SUCCESS with
\* blockNumber, gasUsed and effectiveGasPrice equal to the receipt's values,
\* and the loop, once ended, makes no further poll.
C10_SuccessCarriesReceiptValues ==
    [][\A t \in Tasks :
          /\ (mpc[t] = "try_save" /\ mpc'[t] = "done" /\ The(mcall[t]).status = SUCCESS)
                => /\ store'[t].status = SUCCESS
                   /\ store'[t].blockNumber = The(mcall[t]).metadata.blockNumber
                   /\ store'[t].gasUsed = The(mcall[t]).metadata.gasUsed
                   /\ store'[t].effectiveGasPrice = The(mcall[t]).metadata.effectiveGasPrice
          /\ mpc[t] = "done" => (mpc'[t] = "done" /\ polls'[t] = polls[t])]_vars

Reverted == <<"Transaction reverted">>

\* The update a receipt calls for: status 1 is SUCCESS, status 0 is FAILED
\* with the error of a reverted transaction.
ReceiptCall(raw) ==
    LET receipt == getTransactionReceipt(raw)
    IN  UpdateCall(IF receipt.status = 0 THEN FAILED ELSE SUCCESS,
            [ transactionHash |-> None,
              blockNumber |-> Some(receipt.blockNumber),
              gasUsed |-> Some(receipt.gasUsed),
              effectiveGasPrice |-> Some(receipt.effectiveGasPrice),
              error |-> IF receipt.status = 0 THEN Some(Reverted) ELSE None ])

\* The poll of t returns a receipt in this step.
ReceiptStep(t) == mpc[t] = "polling" /\ mpc'[t] = "try_find" /\ retries'[t] = retries[t]

\* The update under way for t is the one made for a receipt with status 0.
RevertedCall(t) ==
    /\ mpc[t] \in {"try_find", "try_save"}
    /\ mcall[t] # None
    /\ The(mcall[t]).metadata.error = Some(Reverted)

\* C11 as stated: a receipt with status 0 makes the loop ask for FAILED with
\* the error "Transaction reverted"; from there the loop only goes on to save
\* exactly that and to end, and an ended loop makes no poll.
C11_RevertedReceiptEndsLoop ==
    [][\A t \in Tasks :
          /\ ReceiptStep(t) => mcall'[t] \in {Some(ReceiptCall(raw)) : raw \in ProviderReceipts}
          /\ (RevertedCall(t) /\ MonitorStep(t))
                => /\ mpc'[t] \in {"try_save", "done"}
                   /\ polls'[t] = polls[t]
                   /\ mpc'[t] = "done"
                         => /\ store'[t].status = FAILED
                            /\ store'[t].error = Some(Reverted)
          /\ MonitorEnded(t) => (MonitorEnded(t)' /\ polls'[t] = polls[t])]_vars

\* C11 as amended: a receipt with status 0 makes the loop ask for FAILED with
\* the error "Transaction reverted"; the save of that update stores exactly
\* that and ends the loop, and an ended loop makes no poll; when the Task
\* Store rejects the update instead, the attempt is counted and the loop
\* polls again exactly when the counter is below maxRetries.
C11_RevertedReceiptFailsWhenSaved ==
    [][\A t \in Tasks :
          /\ ReceiptStep(t) => mcall'[t] \in {Some(ReceiptCall(raw)) : raw \in ProviderReceipts}
          /\ (RevertedCall(t) /\ MonitorStep(t))
                => /\ polls'[t] = polls[t]
                   /\ mpc'[t] = "done"
                         => /\ mpc[t] = "try_save"
                            /\ store'[t].status = FAILED
                            /\ store'[t].error = Some(Reverted)
                   /\ mpc'[t] \notin {"try_save", "done"}
                         => /\ retries'[t] = retries[t] + 1
                            /\ mpc'[t] = IF retries'[t] < maxRetries
                                         THEN "timer" ELSE "catch_find"
          /\ MonitorEnded(t) => (MonitorEnded(t)' /\ polls'[t] = polls[t])]_vars

\* C11 witness: the loop has ended after a receipt with status 0, the record
\* being FAILED with the error of a reverted transaction.
C11_Witness ==
    \E t \in DOMAIN store :
        /\ mpc[t] = "done"
        /\ polls[t] >= 1
        /\ store[t].status = FAILED
        /\ store[t].error = Some(Reverted)

\* Invocations of monitor in flight for t, at whichever await.
InFlight(t) == running[t]["receipt"] + running[t]["update"] + running[t]["catch_update"]

\* C12: for each task at most one receipt poll is in flight and at most one
\* timer is pending, and a timer is pending only while no invocation of
\* monitor (its poll or its Task Store write) is still in flight.
C12_OnePollOneTimer ==
    \A t \in Tasks :
        /\ running[t]["receipt"] <= 1
        /\ timers[t] <= 1
        /\ timers[t] + InFlight(t) <= 1

\* C12 witness: a timer is pending for a task after two polls, each of which
\* ended by counting an attempt and scheduling the next poll.
C12_Witness ==
    \E t \in Tasks :
        /\ timers[t] = 1
        /\ polls[t] = 2
        /\ retries[t] = 2
        /\ InFlight(t) = 0

\* The endpoints registered for a chain: the entries of its providers Map.
Registered(chainId) ==
    {chainProviders[chainId].providers[i] : i \in DOMAIN chainProviders[chainId].providers}

\* The static priority of a registered endpoint: that of the config it is named in.
Priority(chainId, name) ==
    LET configs == chainProviders[chainId].configs
    IN  configs[CHOOSE i \in DOMAIN configs : configs[i].name = name].priority

\* The endpoints a call has attempted, by position in its log.
LogEndpoint(call, i) == [name |-> call.log[i].name, provider |-> call.log[i].provider]

Completed(k) == exec[k].pc = "done"
Succeeded(k) == Completed(k) /\ ~The(exec[k].outcome).raised
Exhausted(k) == Completed(k) /\ The(exec[k].outcome).raised

\* C13: a call that returns a result returns the result of the last endpoint
\* of its log, whose attempt did not fail; the endpoints attempted before it
\* all failed (by error or timeout) and are exactly the registered endpoints
\* of lower priority number, attempted in ascending priority; nothing is
\* attempted after it.
C13_FirstWorkingEndpointWins ==
    \A k \in Calls :
        LET call == exec[k]
            n == Len(call.log)
        IN  /\ \A i, j \in 1..n :
                  i < j => Priority(call.chainId, call.log[i].name)
                              < Priority(call.chainId, call.log[j].name)
            /\ \A i \in 1..n : LogEndpoint(call, i) \in Registered(call.chainId)
            /\ Succeeded(k)
                  => /\ n >= 1
                     /\ ~call.log[n].failed
                     /\ The(call.outcome).value = OperationResult(call.log[n].provider)
                     /\ \A i \in 1..(n - 1) : call.log[i].failed
                     /\ {LogEndpoint(call, i) : i \in 1..(n - 1)}
                          = {e \in Registered(call.chainId) :
                               Priority(call.chainId, e.name)
                                  < Priority(call.chainId, call.log[n].name)}

\* C13 witness: of three endpoints the first timed out, the second raised
\* and the result of the third was returned.
C13_Witness ==
    \E k \in Calls :
        /\ Succeeded(k)
        /\ Len(exec[k].log) = 3
        /\ exec[k].log[1].message = ProviderTimeout
        /\ exec[k].log[2].message = RpcError(exec[k].log[2].provider)
        /\ The(exec[k].outcome).value = OperationResult(exec[k].log[3].provider)

\* C14: a call raises exactly when every registered endpoint of its chain
\* was attempted and failed; the error then carries the message of the
\* failure of the last endpoint attempted, the one of the highest priority
\* number; a call in which some endpoint did not fail returns a result.
C14_RaisesOnlyOnExhaustion ==
    \A k \in Calls :
        LET call == exec[k]
            n == Len(call.log)
        IN  Completed(k)
              => /\ The(call.outcome).raised
                    <=> /\ \A i \in 1..n : call.log[i].failed
                        /\ {LogEndpoint(call, i) : i \in 1..n} = Registered(call.chainId)
                 /\ The(call.outcome).raised
                    => /\ n = Cardinality(Registered(call.chainId))
                       /\ \A e \in Registered(call.chainId) :
                             Priority(call.chainId, e.name)
                                <= Priority(call.chainId, call.log[n].name)
                       /\ The(call.outcome).message
                             = AllProvidersFailed(call.chainId, call.log[n].message)

\* C14 witness: three endpoints failed, the first and the last differently,
\* and the call raised.
C14_Witness ==
    \E k \in Calls :
        /\ Exhausted(k)
        /\ Len(exec[k].log) = 3
        /\ exec[k].log[1].message # exec[k].log[3].message

\* Two calls saw no endpoint behave in two ways.
SameBehaviour(k, j) ==
    \A a \in DOMAIN exec[k].log : \A b \in DOMAIN exec[j].log :
        exec[k].log[a].provider = exec[j].log[b].provider
            => /\ exec[k].log[a].failed = exec[j].log[b].failed
               /\ exec[k].log[a].message = exec[j].log[b].message

\* C15: the order in which a call attempts the endpoints is the one computed
\* from the priorities whatever the current provider is; calls of one chain
\* have the same order, and the same outcome when the endpoints behave the
\* same for them.
C15_OrderIgnoresCurrentProvider ==
    \A k \in Calls :
        exec[k].pc # "idle"
          => LET call == exec[k]
                 chainProvider == chainProviders[call.chainId]
             IN  /\ \A other \in 1..Len(chainProvider.configs) :
                       sortedProviders([chainProvider EXCEPT !.currentProvider = other])
                          = call.sortedProviders
                 /\ \A i \in DOMAIN call.log :
                       LogEndpoint(call, i) = call.sortedProviders[i]
                 /\ \A j \in Calls :
                       (exec[j].pc # "idle" /\ exec[j].chainId = call.chainId)
                          => /\ exec[j].sortedProviders = call.sortedProviders
                             /\ (Completed(k) /\ Completed(j) /\ SameBehaviour(k, j))
                                   => exec[j].outcome = call.outcome

\* C15 witness: two calls of one chain started under different current
\* providers, met the same behaviour and ended with the same outcome.
C15_Witness ==
    \E k, j \in Calls :
        /\ Succeeded(k) /\ Succeeded(j)
        /\ exec[k].chainId = exec[j].chainId
        /\ exec[k].currentAtStart # exec[j].currentAtStart
        /\ exec[k].log = exec[j].log
        /\ Len(exec[k].log) >= 2

\* Call k returns a result for chain chainId in this step.
Wins(k, chainId) ==
    /\ exec[k].pc = "attempt"
    /\ exec'[k].pc = "done"
    /\ exec[k].chainId = chainId
    /\ ~The(exec'[k].outcome).raised

\* C16: the current provider of a chain becomes the winning endpoint in the
\* step in which a call for the chain returns a result and changes in no
\* other step; it is the first provider created while no call for the chain
\* has returned a result; it is always a registered endpoint of the chain.
C16_CurrentIsLastWinner ==
    [][\A chainId \in PoolChains :
          /\ \A k \in Calls :
                Wins(k, chainId)
                  => chainProviders'[chainId].currentProvider
                        = exec'[k].log[Len(exec'[k].log)].provider
          /\ (~\E k \in Calls : Wins(k, chainId))
                => chainProviders'[chainId].currentProvider
                      = chainProviders[chainId].currentProvider
          /\ (~\E k \in Calls : Succeeded(k)' /\ exec'[k].chainId = chainId)
                => chainProviders'[chainId].currentProvider = 1
          /\ chainProviders'[chainId].currentProvider
                \in {e.provider : e \in Registered(chainId)'}]_vars

\* submitTransaction returned a response (it did not raise) for t.
Responded(t) == sres[t] # None /\ ~The(sres[t]).raised

StoredHash(t) == IF t \in DOMAIN store THEN store[t].transactionHash ELSE None

\* C18: a task's stored transactionHash is null while nothing was broadcast
\* for it; it becomes non-null only in the step that saves SUBMITTED, with
\* the hash the Transaction Submitter returned; once non-null it keeps its
\* value in every later step.
C18_HashWrittenOnce ==
    [][\A t \in DOMAIN store' :
          /\ broadcasts'[t] = 0 => store'[t].transactionHash = None
          /\ StoredHash(t) # None => store'[t].transactionHash = StoredHash(t)
          /\ (StoredHash(t) = None /\ store'[t].transactionHash # None)
                => /\ spc[t] = "upd_save" /\ spc'[t] = "done"
                   /\ store'[t].status = SUBMITTED
                   /\ store'[t].transactionHash = shash[t]]_vars

\* The request supplies gasPrice or a fee-market field.
SuppliesGas(request) ==
    \/ request.gasPrice # None
    \/ request.maxFeePerGas # None
    \/ request.maxPriorityFeePerGas # None

\* C19: the Gas Estimator is called exactly for the requests that supply
\* none of gasPrice, maxFeePerGas and maxPriorityFeePerGas; a request that
\* supplies one has exactly its own three values passed to the Transaction
\* Submitter.
C19_SuppliedGasUsedVerbatim ==
    /\ gpc \in {"estimate", "broadcast", "done"}
          => (estimateCalls = 1 <=> ~SuppliesGas(The(greq)))
    /\ estimateCalls <= 1
    /\ (gpc = "done" /\ SuppliesGas(The(greq)))
          => /\ The(walletParams).gasPrice = The(greq).gasPrice
             /\ The(walletParams).maxFeePerGas = The(greq).maxFeePerGas
             /\ The(walletParams).maxPriorityFeePerGas = The(greq).maxPriorityFeePerGas

\* C20: for a request whose gas overrides validateGasParams refuses, no task
\* record is created and nothing is passed to the Transaction Submitter.
C20_InvalidGasRejectedFirst ==
    (greq # None /\ ~validateGasParams(The(greq).gasLimit, The(greq).gasPrice,
                                      The(greq).maxFeePerGas))
        => /\ ~created
           /\ walletParams = None

\* The transaction carries gasPrice alone and type 0.
Legacy(transaction) ==
    /\ transaction.gasPrice # None
    /\ transaction.maxFeePerGas = None
    /\ transaction.maxPriorityFeePerGas = None
    /\ transaction.type = Some(0)

\* The transaction carries both fee-market fields, no gasPrice, and type 2.
FeeMarket(transaction) ==
    /\ transaction.gasPrice = None
    /\ transaction.maxFeePerGas # None
    /\ transaction.maxPriorityFeePerGas # None
    /\ transaction.type = Some(2)

\* The params have neither a gasPrice nor a fee-market field.
NoGasGiven(params) ==
    /\ params.gasPrice = None
    /\ params.maxFeePerGas = None
    /\ params.maxPriorityFeePerGas = None

\* C21: the transaction WalletService.submitTransaction sends is legacy
\* (gasPrice alone, type 0) or fee-market (both fee fields, no gasPrice,
\* type 2), and nothing is sent on an endpoint without such a transaction;
\* a call whose params have no gasPrice and no fee-market field throws the
\* missing-gas-parameters error, as rethrown by its catch block, and no
\* endpoint is attempted.
C21_LegacyOrFeeMarketNeverMixed ==
    /\ wallet.transaction # None
          => Legacy(The(wallet.transaction)) \/ FeeMarket(The(wallet.transaction))
    /\ exec[1].pc # "idle" => wallet.transaction # None
    /\ (wallet.pc # "idle" /\ NoGasGiven(The(wallet.params)))
          => /\ wallet.pc = "done"
             /\ wallet.outcome = Some(Thrown(WalletSubmissionFailed(MissingGasParameters)))
             /\ exec[1] = NoCall

\* A call given gasPrice and both fee-market fields returned a hash: the
\* transaction it sent is fee-market.
C21_Witness ==
    /\ wallet.pc = "done"
    /\ The(wallet.params).gasPrice = Some("20")
    /\ The(wallet.params).maxFeePerGas # None
    /\ The(wallet.params).maxPriorityFeePerGas # None
    /\ ~The(wallet.outcome).raised
    /\ Len(exec[1].log) = 2

\* Call k for a chain started after call j for the same chain had returned.
Follows(j, k) ==
    /\ gp[j].pc = "done"
    /\ gp[k].pc = "done"
    /\ j \in gp[k].after
    /\ gp[j].chainId = gp[k].chainId

\* C22: of two getGasPrices calls for the same chain that start less than
\* 60 s apart, the second returns the prices the first returned and calls no
\* endpoint.
C22_SecondCallServedFromCache ==
    \A j, k \in GpCalls :
        (Follows(j, k) /\ gp[k].startedAt - gp[j].startedAt < CACHE_TTL)
            => /\ gp[k].prices = gp[j].prices
               /\ ~gp[k].queried

\* No call other than j and k stored prices for the chain of j.
NoOtherStore(j, k) ==
    \A m \in GpCalls \ {j, k} : gp[m].chainId # gp[j].chainId \/ gp[m].storedAt = None

\* C22, amended: when the prices the first call returned are in the cache
\* (it read them there or stored them), no other call stores prices for the
\* chain, and the second call for the chain reads the cache, without
\* failure, less than 60 s after they were stored, the second returns the
\* same prices and calls no endpoint; a call that calls an endpoint has read
\* the cache before and did not get the entry.
C22_SecondCallServedWhileCached ==
    /\ \A j, k \in GpCalls :
          (/\ Follows(j, k)
           /\ NoOtherStore(j, k)
           /\ gp[j].storedAt # None
           /\ ~gp[k].readFailed
           /\ gp[k].readAt - The(gp[j].storedAt) < CACHE_TTL)
              => /\ gp[k].prices = gp[j].prices
                 /\ ~gp[k].queried
    /\ \A k \in GpCalls :
          /\ gp[k].pc = "get" => ~gp[k].queried
          /\ (gp[k].pc = "done" /\ ~gp[k].queried)
                => /\ gp[k].storedAt # None
                   /\ gp[k].readAt - The(gp[k].storedAt) < CACHE_TTL

\* The first call stored prices other than the fallback ones, the clock
\* advanced, and a second call for the chain returned them without calling
\* an endpoint.
C22_Witness ==
    /\ Follows(1, 2)
    /\ gp[1].queried
    /\ gp[1].storedAt = Some(0)
    /\ gp[1].prices # Some(FallbackPrices)
    /\ gp[2].readAt = Tick
    /\ ~gp[2].queried
    /\ gp[2].prices = gp[1].prices

\* C23: the gasLimit estimateGas returns is the simulation's estimate times
\* 1.2, rounded down, when the simulation succeeded on an endpoint, and
\* DEFAULT_GAS_LIMIT when, and only when, it failed on every endpoint.
C23_GasLimitIsBufferedEstimate ==
    eg.pc = "done"
        => /\ eg.simulated # None
                 => The(eg.result).gasLimit = (The(eg.simulated) * 12) \div 10
           /\ eg.simulated = None => The(eg.result).gasLimit = DEFAULT_GAS_LIMIT

\* C24: the estimation has maxFeePerGas and maxPriorityFeePerGas exactly
\* when the fee data of the chain has both fee-market fields not null, the
\* priority fee being the chain's, or 2 gwei when the chain then returns
\* null for it; in every case its gasPrice is the standard price getGasPrices
\* returned.
C24_FeeMarketFieldsWhenReported ==
    eg.pc = "done"
        => LET result == The(eg.result)
               reported == /\ eg.checked # None
                           /\ The(eg.checked).maxFeePerGas # None
                           /\ The(eg.checked).maxPriorityFeePerGas # None
           IN  /\ reported <=> (/\ result.maxFeePerGas # None
                                /\ result.maxPriorityFeePerGas # None)
               /\ ~reported => (/\ result.maxFeePerGas = None
                                /\ result.maxPriorityFeePerGas = None)
               /\ (reported /\ eg.feeData # None) =>
                     result.maxPriorityFeePerGas =
                        Some(IF The(eg.feeData).maxPriorityFeePerGas = None
                             THEN ToString(DefaultPriorityFee)
                             ELSE ToString(The(The(eg.feeData).maxPriorityFeePerGas)))
               /\ result.gasPrice = The(gp[eg.call].prices).standard

\* The getGasPrices call returned prices that come from the chain: an
\* endpoint answered it, or it read them in the cache.
FromChain(call) == call.fetched \/ (~call.queried /\ call.storedAt # None)

\* C25: GasEstimatorService.checkHealth returns true exactly when gas prices
\* could be fetched from the chain for a configured chain, and false when
\* the endpoints fail.
C25_EstimatorHealthyIffPricesFetched ==
    health.gasEstimatorHealthy # None
        => (The(health.gasEstimatorHealthy) <=> FromChain(gp[health.call]))

\* C27: RelayService.checkHealth returns true exactly when the health of the
\* Transaction Submitter, of the Gas Estimator and of the Task Store are all
\* true; it returns false when one of them is false.
C27_HealthIsConjunction ==
    health.pc = "done"
        => /\ The(health.result) <=> (/\ health.walletHealthy = Some(TRUE)
                                      /\ health.gasEstimatorHealthy = Some(TRUE)
                                      /\ health.taskTrackerHealthy = Some(TRUE))
           /\ (\/ health.walletHealthy = Some(FALSE)
               \/ health.gasEstimatorHealthy = Some(FALSE)
               \/ health.taskTrackerHealthy = Some(FALSE))
                  => health.result = Some(FALSE)

\* A call returned false with the Transaction Submitter unhealthy, every
\* chain having failed, and the two other components healthy.
C27_Witness ==
    /\ health.pc = "done"
    /\ health.index = Len(getSupportedChains)
    /\ health.walletHealthy = Some(FALSE)
    /\ health.gasEstimatorHealthy = Some(TRUE)
    /\ health.taskTrackerHealthy = Some(TRUE)
    /\ health.result = Some(FALSE)

\* The price is supplied, is the decimal string of an integer, and exceeds
\* the maximum gas price.
ExceedsMaximum(price) ==
    /\ price # None
    /\ Parses(The(price))
    /\ BigInt(The(price)) > MaxGasPriceGwei

\* The price is supplied, not empty, and not the decimal string of an integer.
Malformed(price) == price # None /\ price # Some("") /\ ~Parses(The(price))

\* The gas limit is supplied and exceeds the ceiling.
ExceedsCeiling(gasLimit) == gasLimit # None /\ The(gasLimit) > GasLimitCeiling

QueryEnds(k) == query[k].pc = "find" /\ query'[k].pc = "done"

\* Call j ended, for the same taskId as call k, and the Task Store has not
\* changed since j read it.
SameRead(j, k) ==
    /\ j # k
    /\ query[j].pc = "done"
    /\ query[j].taskId = query[k].taskId
    /\ query[j].at = Some(store)

CancelledTrue(t) == \E k \in Cancels : ctask[k] = Some(t) /\ cres[k] = Some(TRUE)

\* C29: once cancelTask has returned true for a task, no transaction is
\* broadcast for it and its record stays CANCELLED.
C29_CancelledTaskNeverBroadcast ==
    [][\A t \in Tasks :
          CancelledTrue(t)
              => /\ broadcasts'[t] = broadcasts[t]
                 /\ store'[t].status = CANCELLED]_vars

\* C30: when submitTransaction has ended for a task whose transaction the
\* Transaction Submitter broadcast, the record of the task carries the hash
\* returned, is not FAILED without a hash, and monitoring was started.
C30_BroadcastHashIsRecorded ==
    \A t \in Tasks :
        (shash[t] # None /\ spc[t] = "done")
            => /\ t \in DOMAIN store
               /\ store[t].transactionHash = shash[t]
               /\ ~(store[t].status = FAILED /\ store[t].transactionHash = None)
               /\ mpc[t] # "off"

\* C33: no failure of a provider call or of a Task Store write inside the
\* monitoring loop leaves the loop as a rejection that nothing handles: the
\* loop of every task is waiting for a timer, working, or has ended normally.
C33_NoFailureEscapesTheLoop ==
    \A t \in Tasks : mpc[t] # "unhandled"

\* C34: in every state the error of a record is set only if its status is
\* FAILED, and its blockNumber, gasUsed and effectiveGasPrice are set only if
\* its status is SUCCESS or FAILED and its transactionHash is set.
C34_ResultMetadataOnlyOnOutcome ==
    \A t \in DOMAIN store :
        /\ store[t].error # None => store[t].status = FAILED
        /\ (\/ store[t].blockNumber # None
            \/ store[t].gasUsed # None
            \/ store[t].effectiveGasPrice # None)
              => /\ store[t].status \in {SUCCESS, FAILED}
                 /\ store[t].transactionHash # None

\* C37: the failure with which submitTransaction ends for a chainId outside
\* the supported chains, returned or raised, carries the message
\* "Chain ID <id> is not supported".
C37_UnsupportedChainErrorReported ==
    \A t \in Tasks :
        (Unsupported(t) /\ spc[t] = "done")
            => The(sres[t]).message =
                  <<"Chain ID ", ToString(The(sreq[t]).chainId), " is not supported">>

\* C36: the gasLimit passed to the Transaction Submitter is the one of the
\* request whenever the request has one, and it is the one the Gas Estimator
\* returned only for a request that has none.
C36_CallerGasLimitKept ==
    gpc = "done"
        => /\ The(greq).gasLimit # None
                 => The(walletParams).gasLimit = The(greq).gasLimit
           /\ (estimateCalls = 1 /\ The(walletParams).gasLimit = The(gasParams).gasLimit)
                 => The(greq).gasLimit = None

\* The gas fields of an estimation, as submitTransaction spreads them.
EstimatedFields(estimation) ==
    [ gasLimit |-> Some(estimation.gasLimit), gasPrice |-> Some(estimation.gasPrice),
      maxFeePerGas |-> estimation.maxFeePerGas,
      maxPriorityFeePerGas |-> estimation.maxPriorityFeePerGas ]

\* The params the Transaction Submitter receives for the request when the
\* Gas Estimator returned the estimation.
ParamsAfterEstimate(request, estimation) ==
    Spread(request, Spread([request EXCEPT !.gasLimit = Some(DEFAULT_GAS_LIMIT)],
                           EstimatedFields(estimation)))

\* WalletService.submitTransaction finds gas pricing in the params: both
\* fee-market fields, or gasPrice.
HasGasPricing(params) ==
    \/ TruthyStr(params.maxFeePerGas) /\ TruthyStr(params.maxPriorityFeePerGas)
    \/ TruthyStr(params.gasPrice)

\* C35: an estimateGas call always has a next step until it has returned,
\* and what it returns has a positive gasLimit and a non-empty gasPrice,
\* whichever of its endpoint and cache calls failed; with it, every request
\* for which submitTransaction calls the Gas Estimator reaches the
\* Transaction Submitter with gas pricing.
C35_EstimateAlwaysUsable ==
    /\ eg.pc \notin {"idle", "done"} => ENABLED EstimateNext
    /\ eg.pc = "done"
          => /\ eg.result # None
             /\ The(eg.result).gasLimit > 0
             /\ The(eg.result).gasPrice # ""
             /\ Parses(The(eg.result).gasPrice)
             /\ \A request \in GasRequests :
                   needsEstimate(request)
                       => HasGasPricing(ParamsAfterEstimate(request, The(eg.result)))

\* C35 witness: an estimation was returned although the simulation, the
\* cache read and the price query of the call all failed.
C35_Witness ==
    /\ eg.pc = "done"
    /\ eg.result # None
    /\ eg.simulated = None
    /\ gp[eg.call].readFailed
    /\ gp[eg.call].queried
    /\ ~gp[eg.call].fetched

\* C38: for every chain of the pool the names given to the configured URLs
\* are pairwise distinct, and the pool holds as many endpoints as there are
\* configured URLs: totalProviders and the number of names reported by
\* getProviderStats equal the number of URLs.
C38_OneEndpointPerUrl ==
    \A chainId \in PoolChains :
        LET configs == chainProviders[chainId].configs
        IN  /\ \A i, j \in DOMAIN configs :
                  i # j => configs[i].name # configs[j].name
            /\ getProviderStats(chainId).totalProviders = Len(rpcUrls[chainId])
            /\ Len(getProviderStats(chainId).availableProviders) = Len(rpcUrls[chainId])

\* The place of a vendor in the documented order; an unclassified URL comes
\* after the three vendors.
VendorRank(kind) ==
    IF kind = "alchemy" THEN 1
    ELSE IF kind = "infura" THEN 2
    ELSE IF kind = "publicnode" THEN 3
    ELSE 4

\* The provider created for URL p of the chain is to be attempted before the
\* one created for URL q: by vendor, and two unclassified URLs in the order
\* of the configuration.
AttemptedBefore(chainId, p, q) ==
    LET urls == rpcUrls[chainId]
    IN  \/ VendorRank(urls[p]) < VendorRank(urls[q])
        \/ /\ urls[p] = "other"
           /\ urls[q] = "other"
           /\ p < q

\* C39: whatever the positions of the URLs in the configuration, a call
\* attempts the endpoints of its chain Alchemy first, then Infura, then the
\* public node, then the unclassified ones in configuration order: this is
\* the order of the sorted providers and of the attempts made.
C39_VendorOrderWhateverThePosition ==
    \A k \in Calls :
        LET call == exec[k]
        IN  exec[k].pc # "idle"
              => /\ \A i, j \in DOMAIN call.sortedProviders :
                        i < j => AttemptedBefore(call.chainId,
                                                 call.sortedProviders[i].provider,
                                                 call.sortedProviders[j].provider)
                 /\ \A i \in DOMAIN call.log :
                        call.log[i].provider = call.sortedProviders[i].provider

\* C39 witness: with the public node configured first and Alchemy last, a
\* call attempted Alchemy, then the public node, then the unclassified URL.
C39_Witness ==
    \E k \in Calls :
        /\ exec[k].chainId = 1
        /\ rpcUrls[1] = <<"publicnode", "other", "alchemy">>
        /\ Len(exec[k].log) = 3
        /\ exec[k].log[1].provider = 3
        /\ exec[k].log[2].provider = 1
        /\ exec[k].log[3].provider = 2

\* C32: the sendTransaction of a WalletService.submitTransaction call is
\* never running on two endpoints at once, and it takes effect on at most
\* one endpoint.
C32_OneEndpointAtATime ==
    /\ Cardinality(exec[1].running) <= 1
    /\ Cardinality(exec[1].resolved) <= 1

\* C31: while Task Store writes succeed and timers fire, every task that has
\* a record eventually has the status SUCCESS, FAILED or CANCELLED, whatever
\* the endpoints answer.
C31_EveryTaskEnds ==
    \A t \in Tasks :
        (t \in DOMAIN store) ~> (t \in DOMAIN store /\ isFinalState(store[t].status))

\* C31 witness: a task for which cancelTask returned true, whose record the
\* submit flow then wrote SUBMITTED, ended SUCCESS after one poll found no
\* receipt and another raised.
C31_Witness ==
    \E t \in DOMAIN store :
        /\ store[t].status = SUCCESS
        /\ polls[t] = 3
        /\ retries[t] = 2
        /\ mpc[t] = "done"
        /\ CancelledTrue(t)

====
